---- MODULE Spec2Model ----
(***************************************************************************)
(* Conversation context builder and dialogue state machine of the LINE /   *)
(* Shopify customer-support bot (src/unnamed/part_000).                    *)
(*                                                                         *)
(* Text is modelled as a sequence of characters.  Every character of the   *)
(* source's Japanese literals is written as one ASCII token: "j_" kanji,   *)
(* "h_" hiragana, "k_" katakana (the module's strings are ASCII only).     *)
(***************************************************************************)
EXTENDS Integers, Sequences, FiniteSets, TLC

\* JavaScript's null where an object is expected.  A null string is the
\* empty sequence (the code only tests such strings for truthiness), and a
\* null property of the Context is a field the record does not have.
Null == [null |-> TRUE]

\* no character: an optional character a pattern does not have
NoChar == ""

\* JavaScript's truthiness of a string or null: null and "" are falsy
Truthy(v) == v # <<>>

(***************************************************************************)
(* Characters and string helpers (String.prototype.includes, trim,         *)
(* parseInt, the \d and \s classes of the regular expressions).            *)
(***************************************************************************)
Digits == <<"0", "1", "2", "3", "4", "5", "6", "7", "8", "9">>

IsDigit(c) == \E d \in 1..10 : Digits[d] = c

DigitValue(c) == (CHOOSE d \in 1..10 : Digits[d] = c) - 1

IsSpace(c) == c = " "

\* [\s:\uFF1A] of the labelled order-number patterns
IsSeparator(c) == c \in {" ", ":", "fw_colon"}

Hiragana == {"h_o", "h_yo", "h_u", "h_ba", "h_ji", "h_me", "h_i", "h_tsu", "h_ha", "h_de", "h_su", "h_to", "h_shi", "h_ma",
             "h_ri", "h_re", "h_mi", "h_wa", "h_se", "h_ni", "h_te", "h_e",
             "h_no", "h_ta", "h_ko", "h_n", "h_chi"}

Katakana == {"k_su", "k_te", "k_ta", "k_ki", "k_xya", "k_n", "k_se", "k_ru",
             "k_sa", "k_i", "k_zu", "k_ku", "k_re", "k_ji", "k_xtsu", "k_to",
             "k_mu", "k_o", "k_da"}

Kanji == {"j_hatsu", "j_sou", "j_hai", "j_todo", "j_tou", "j_chaku", "j_tsui",
          "j_seki", "j_chuu", "j_mon", "j_kaku", "j_nin", "j_jou", "j_kyou",
          "j_hen", "j_hin", "j_kin", "j_kou", "j_kan", "j_zai", "j_ko",
          "j_nyuu", "j_ka", "j_uri", "j_kire", "j_sai", "j_shou", "j_iro",
          "j_kuwa", "j_hoso", "j_shi", "j_harai", "j_ketsu", "j_zumi",
          "j_furi", "j_komi", "j_ei", "j_gyou", "j_ji", "j_aida", "j_yasu",
          "j_toi", "j_a", "j_ika", "j_mottomo", "j_aku", "j_sa", "j_gi",
          "j_so", "j_shou_suit", "j_ben", "j_go", "j_samurai", "j_ban",
          "j_gou", "j_watashi", "j_mou", "j_na", "j_mae", "j_yama", "j_ta",
          "j_futo", "j_rou", "j_oshi"}

\* the character class of the bare-name test: hiragana, katakana (with the
\* long-vowel bar) and kanji
NameScript == Hiragana \cup Katakana \cup {"k_bar"} \cup Kanji

\* String.prototype.includes
Includes(s, kw) ==
  \E i \in 1..(Len(s) - Len(kw) + 1) : SubSeq(s, i, i + Len(kw) - 1) = kw

\* whether kw occurs in s at position i
OccursAt(s, kw, i) ==
  /\ i >= 1
  /\ i + Len(kw) - 1 <= Len(s)
  /\ SubSeq(s, i, i + Len(kw) - 1) = kw

RECURSIVE TrimLeft(_)
TrimLeft(s) ==
  IF s # <<>> /\ IsSpace(Head(s)) THEN TrimLeft(Tail(s)) ELSE s

RECURSIVE TrimRight(_)
TrimRight(s) ==
  IF s # <<>> /\ IsSpace(s[Len(s)])
  THEN TrimRight(SubSeq(s, 1, Len(s) - 1))
  ELSE s

\* String.prototype.trim
Trim(s) == TrimRight(TrimLeft(s))

\* the end (exclusive) of the maximal run of digits of s that starts at i
RECURSIVE DigitRunEnd(_, _)
DigitRunEnd(s, i) ==
  IF i <= Len(s) /\ IsDigit(s[i]) THEN DigitRunEnd(s, i + 1) ELSE i

\* the end (exclusive) of the maximal run of separators of s that starts at i
RECURSIVE SeparatorRunEnd(_, _)
SeparatorRunEnd(s, i) ==
  IF i <= Len(s) /\ IsSeparator(s[i]) THEN SeparatorRunEnd(s, i + 1) ELSE i

RECURSIVE DecimalValue(_)
DecimalValue(ds) ==
  IF ds = <<>> THEN 0
  ELSE 10 * DecimalValue(SubSeq(ds, 1, Len(ds) - 1)) + DigitValue(ds[Len(ds)])

\* parseInt(text): leading white space is skipped, an optional sign is read,
\* then the longest run of digits; NaN (nan = TRUE) when there is none
parseInt(text) ==
  LET s == TrimLeft(text)
      signed == s # <<>> /\ s[1] \in {"-", "+"}
      from == IF signed THEN 2 ELSE 1
      to == DigitRunEnd(s, from)
      magnitude == DecimalValue(SubSeq(s, from, to - 1))
  IN IF to = from THEN [nan |-> TRUE]
     ELSE [nan |-> FALSE,
           value |-> IF signed /\ s[1] = "-" THEN 0 - magnitude ELSE magnitude]

Min(S) == CHOOSE x \in S : \A y \in S : x <= y

Max(S) == CHOOSE x \in S : \A y \in S : x >= y

(***************************************************************************)
(* Extractor: the order-number patterns of analyzeMessage and              *)
(* extractCustomerName.                                                    *)
(***************************************************************************)
LabelOrderNumber == <<"j_chuu", "j_mon", "j_ban", "j_gou">>

LabelOrder == <<"k_o", "k_bar", "k_da", "k_bar">>

\* /#(\d+)/ : the start of the capture of the leftmost match, 0 when none
HashMatch(m) ==
  LET at == {i \in 1..Len(m) : m[i] = "#" /\ i < Len(m) /\ IsDigit(m[i + 1])}
  IN IF at = {} THEN 0 ELSE Min(at) + 1

\* /label[\s:\uFF1A]*(\d+)/ : the start of the capture of the leftmost match
LabelMatch(m, label) ==
  LET digitsAt(i) == SeparatorRunEnd(m, i + Len(label))
      at == {i \in 1..Len(m) :
               /\ OccursAt(m, label, i)
               /\ digitsAt(i) <= Len(m)
               /\ IsDigit(m[digitsAt(i)])}
  IN IF at = {} THEN 0 ELSE digitsAt(Min(at))

\* /(\d{4,})/ : the start of the leftmost run of four or more digits
BareMatch(m) ==
  LET at == {i \in 1..Len(m) : DigitRunEnd(m, i) - i >= 4}
  IN IF at = {} THEN 0 ELSE Min(at)

\* extractOrderNumber with the pattern of the bare digit run tried first
ExtractBareRunFirst(m) ==
  LET starts == <<BareMatch(m), HashMatch(m), LabelMatch(m, LabelOrderNumber),
                  LabelMatch(m, LabelOrder)>>
      hits == {k \in 1..4 : starts[k] # 0}
      from == starts[Min(hits)]
  IN IF hits = {} THEN <<>>
     ELSE SubSeq(m, from, DigitRunEnd(m, from) - 1)

\* the loop over orderPatterns: the first pattern that matches decides
extractOrderNumber(m) ==
  LET starts == <<HashMatch(m), LabelMatch(m, LabelOrderNumber),
                  LabelMatch(m, LabelOrder), BareMatch(m)>>
      hits == {k \in 1..4 : starts[k] # 0}
      from == starts[Min(hits)]
  IN IF hits = {} THEN <<>>
     ELSE SubSeq(m, from, DigitRunEnd(m, from) - 1)

SuffixDesu == <<"h_de", "h_su">>

SuffixToMoushimasu == <<"h_to", "j_mou", "h_shi", "h_ma", "h_su">>

SuffixToIimasu == <<"h_to", "h_i", "h_i", "h_ma", "h_su">>

PrefixNamaeHa == <<"j_na", "j_mae", "h_ha">>

\* One regular expression of namePatterns,
\*   prefix opt1? opt2? (.{2,10}) (?:suffix1|suffix2|...) [$]
\* matched as a backtracking engine does: the leftmost start, each optional
\* character taken when it can be, the longest capture.  The result is
\* <<capture start, capture length>>, or <<0, 0>> when nothing matches.
NamePatternMatch(m, prefix, opt1, opt2, suffixes, atEnd) ==
  LET takes(i, c) == IF c # NoChar /\ i <= Len(m) /\ m[i] = c THEN {1, 0} ELSE {0}
      follows(j) == \E sfx \in suffixes :
                      /\ OccursAt(m, sfx, j)
                      /\ (atEnd => j + Len(sfx) - 1 = Len(m))
      tries == {t \in (1..(Len(m) + 1)) \X {0, 1} \X {0, 1} \X (2..10) :
                  /\ prefix = <<>> \/ OccursAt(m, prefix, t[1])
                  /\ t[2] \in takes(t[1] + Len(prefix), opt1)
                  /\ t[3] \in takes(t[1] + Len(prefix) + t[2], opt2)
                  /\ follows(t[1] + Len(prefix) + t[2] + t[3] + t[4])}
      before(a, b) ==
        \/ a[1] < b[1]
        \/ a[1] = b[1] /\ a[2] > b[2]
        \/ a[1] = b[1] /\ a[2] = b[2] /\ a[3] > b[3]
        \/ a[1] = b[1] /\ a[2] = b[2] /\ a[3] = b[3] /\ a[4] >= b[4]
      first == CHOOSE a \in tries : \A b \in tries : before(a, b)
  IN IF tries = {} THEN <<0, 0>>
     ELSE <<first[1] + Len(prefix) + first[2] + first[3], first[4]>>

extractCustomerName(m) ==
  LET p1 == NamePatternMatch(m, <<>>, "j_watashi", "h_ha",
                             {SuffixDesu, SuffixToMoushimasu, SuffixToIimasu}, FALSE)
      p2 == NamePatternMatch(m, PrefixNamaeHa, NoChar, NoChar,
                             {SuffixDesu, SuffixToMoushimasu}, FALSE)
      p3 == NamePatternMatch(m, <<>>, NoChar, NoChar,
                             {SuffixDesu, SuffixToMoushimasu, SuffixToIimasu}, TRUE)
      capture(p) == Trim(SubSeq(m, p[1], p[1] + p[2] - 1))
      bare == Trim(m)
  IN IF p1[1] # 0 THEN capture(p1)
     ELSE IF p2[1] # 0 THEN capture(p2)
     ELSE IF p3[1] # 0 THEN capture(p3)
     ELSE IF Len(bare) \in 2..4 /\ \A i \in 1..Len(bare) : bare[i] \in NameScript
          THEN bare
     ELSE <<>>

(***************************************************************************)
(* Classifier and escalation policy.                                       *)
(***************************************************************************)
CatShipping == "shipping_delivery"
CatOrder == "order_confirmation"
CatCancel == "cancel_return"
CatStock == "stock"
CatProduct == "product"
CatPayment == "payment"
CatBusiness == "business_other"
CatOther == "other"

\* the categories table of categorizeMessage, in the order of its keys
categories == <<
  [category |-> CatShipping,
   keywords |-> <<<<"j_hatsu", "j_sou">>, <<"j_hai", "j_sou">>, <<"j_todo">>,
                  <<"h_i", "h_tsu">>, <<"j_tou", "j_chaku">>,
                  <<"j_tsui", "j_seki">>>>],
  [category |-> CatOrder,
   keywords |-> <<<<"j_chuu", "j_mon">>, <<"j_kaku", "j_nin">>,
                  <<"j_jou", "j_kyou">>,
                  <<"k_su", "k_te", "k_bar", "k_ta", "k_su">>>>],
  [category |-> CatCancel,
   keywords |-> <<<<"k_ki", "k_xya", "k_n", "k_se", "k_ru">>,
                  <<"j_hen", "j_hin">>, <<"j_hen", "j_kin">>,
                  <<"j_kou", "j_kan">>>>],
  [category |-> CatStock,
   keywords |-> <<<<"j_zai", "j_ko">>, <<"j_nyuu", "j_ka">>,
                  <<"j_uri", "h_ri", "j_kire", "h_re">>,
                  <<"j_sai", "j_nyuu", "j_ka">>>>],
  [category |-> CatProduct,
   keywords |-> <<<<"j_shou", "j_hin">>, <<"k_sa", "k_i", "k_zu">>,
                  <<"j_iro">>, <<"j_kuwa", "j_hoso">>>>],
  [category |-> CatPayment,
   keywords |-> <<<<"j_shi", "j_harai">>, <<"j_ketsu", "j_zumi">>,
                  <<"j_furi", "j_komi">>,
                  <<"k_ku", "k_re", "k_ji", "k_xtsu", "k_to">>>>],
  [category |-> CatBusiness,
   keywords |-> <<<<"j_ei", "j_gyou", "j_ji", "j_aida">>,
                  <<"j_yasu", "h_mi">>,
                  <<"j_toi", "h_i", "j_a", "h_wa", "h_se">>>>] >>

\* keywords.some(keyword => message.includes(keyword))
SomeIncluded(message, keywords) ==
  \E k \in 1..Len(keywords) : Includes(message, keywords[k])

\* categorizeMessage with the last category that matches winning
CategorizeLastMatch(message) ==
  LET hits == {c \in 1..Len(categories) :
                 SomeIncluded(message, categories[c].keywords)}
  IN IF hits = {} THEN CatOther ELSE categories[Max(hits)].category

categorizeMessage(message) ==
  LET hits == {c \in 1..Len(categories) :
                 SomeIncluded(message, categories[c].keywords)}
  IN IF hits = {} THEN CatOther ELSE categories[Min(hits)].category

escalationKeywords == <<
  <<"k_ku", "k_re", "k_bar", "k_mu">>, <<"j_ika">>, <<"j_mottomo", "j_aku">>,
  <<"j_sa", "j_gi">>, <<"j_so", "j_shou_suit">>,
  <<"j_ben", "j_go", "j_samurai">> >>

needsHumanCategories == {CatCancel}

\* shouldEscalateToHuman looking at the keywords only
EscalateOnKeywordOnly(message, category) ==
  SomeIncluded(message, escalationKeywords)

shouldEscalateToHuman(message, category) ==
  \/ SomeIncluded(message, escalationKeywords)
  \/ category \in needsHumanCategories

(***************************************************************************)
(* Order resolver.  The commerce collaborator is a record                  *)
(*   [customers |-> sequence of [id, name, orders], okCalls |-> n] :       *)
(* a customer search answers with the customers whose name contains the    *)
(* query, and the (okCalls + 1)-th HTTP call of one lookup fails.          *)
(***************************************************************************)
MaxCandidates == 5

\* GET /customers/search.json?query=...
SearchCustomers(shop, query) ==
  SelectSeq(shop.customers, LAMBDA c : Includes(c.name, query))

RECURSIVE Flatten(_)
Flatten(lists) ==
  IF lists = <<>> THEN <<>> ELSE Head(lists) \o Flatten(Tail(lists))

\* the orders pushed to allOrders for one query: those of every customer found
OrdersOfQuery(shop, query) ==
  LET found == SearchCustomers(shop, query)
  IN Flatten([k \in 1..Len(found) |-> found[k].orders])

\* the HTTP calls one query makes: the search, then one per customer found
CallsOfQuery(shop, query) == 1 + Len(SearchCustomers(shop, query))

\* Array.from(new Map(allOrders.map(order => [order.id, order])).values()):
\* one entry per id, at the place of the id's first occurrence, holding its
\* last occurrence
RECURSIVE UniqueById(_, _)
UniqueById(all, i) ==
  IF i > Len(all) THEN <<>>
  ELSE IF \E j \in 1..(i - 1) : all[j].id = all[i].id
       THEN UniqueById(all, i + 1)
       ELSE <<all[Max({j \in i..Len(all) : all[j].id = all[i].id})]>>
            \o UniqueById(all, i + 1)

\* Array.prototype.sort with (a, b) => b.created_at - a.created_at: a stable
\* sort, the most recent first
RECURSIVE SortByCreatedDesc(_)
SortByCreatedDesc(orders) ==
  IF orders = <<>> THEN <<>>
  ELSE LET last == orders[Len(orders)]
           sorted == SortByCreatedDesc(SubSeq(orders, 1, Len(orders) - 1))
           k == Cardinality({i \in 1..Len(sorted) :
                               sorted[i].created_at >= last.created_at})
       IN SubSeq(sorted, 1, k) \o <<last>> \o SubSeq(sorted, k + 1, Len(sorted))

\* a slice that keeps the whole list
SliceKeepingAll(list, n) == list

\* Array.prototype.slice(0, n)
Slice(list, n) == SubSeq(list, 1, IF Len(list) < n THEN Len(list) ELSE n)

\* searchOrdersByCustomerName returning, when a call fails, the orders of the
\* queries that were completed before
SearchKeepingCompletedQueries(customerName, shop) ==
  LET searchQueries == <<customerName,
                         SubSeq(customerName, 1, Len(customerName) - 1),
                         SubSeq(customerName, 2, Len(customerName))>>
      calls(n) == IF n = 0 THEN 0
                  ELSE IF n = 1 THEN CallsOfQuery(shop, searchQueries[1])
                  ELSE IF n = 2 THEN CallsOfQuery(shop, searchQueries[1])
                                     + CallsOfQuery(shop, searchQueries[2])
                  ELSE CallsOfQuery(shop, searchQueries[1])
                       + CallsOfQuery(shop, searchQueries[2])
                       + CallsOfQuery(shop, searchQueries[3])
      completed == Max({n \in 0..3 : calls(n) <= shop.okCalls})
      allOrders == Flatten([n \in 1..completed |->
                              OrdersOfQuery(shop, searchQueries[n])])
  IN Slice(SortByCreatedDesc(UniqueById(allOrders, 1)), MaxCandidates)

\* searchOrdersByCustomerName truncating before it sorts
SearchSlicingBeforeSort(customerName, shop) ==
  LET searchQueries == <<customerName,
                         SubSeq(customerName, 1, Len(customerName) - 1),
                         SubSeq(customerName, 2, Len(customerName))>>
      calls == CallsOfQuery(shop, searchQueries[1])
               + CallsOfQuery(shop, searchQueries[2])
               + CallsOfQuery(shop, searchQueries[3])
      allOrders == OrdersOfQuery(shop, searchQueries[1])
                   \o OrdersOfQuery(shop, searchQueries[2])
                   \o OrdersOfQuery(shop, searchQueries[3])
  IN IF shop.okCalls < calls THEN <<>>
     ELSE SortByCreatedDesc(Slice(UniqueById(allOrders, 1), MaxCandidates))

searchOrdersByCustomerName(customerName, shop) ==
  LET searchQueries == <<customerName,
                         SubSeq(customerName, 1, Len(customerName) - 1),
                         SubSeq(customerName, 2, Len(customerName))>>
      calls == CallsOfQuery(shop, searchQueries[1])
               + CallsOfQuery(shop, searchQueries[2])
               + CallsOfQuery(shop, searchQueries[3])
      allOrders == OrdersOfQuery(shop, searchQueries[1])
                   \o OrdersOfQuery(shop, searchQueries[2])
                   \o OrdersOfQuery(shop, searchQueries[3])
      uniqueOrders == SortByCreatedDesc(UniqueById(allOrders, 1))
  IN IF shop.okCalls < calls THEN <<>>
     ELSE Slice(uniqueOrders, MaxCandidates)

\* every order of the shop, customer by customer
AllOrders(shop) ==
  Flatten([k \in 1..Len(shop.customers) |-> shop.customers[k].orders])

getOrderDetails(orderNumber, shop) ==
  LET orders == SelectSeq(AllOrders(shop),
                          LAMBDA o : o.order_number = orderNumber)
      order == orders[1]
  IN IF shop.okCalls < 1 THEN Null
     ELSE IF Len(orders) = 0 THEN Null
     ELSE [orderNumber |-> order.order_number,
           status |-> order.financial_status,
           fulfillmentStatus |-> order.fulfillment_status,
           createdAt |-> order.created_at,
           items |-> order.line_items,
           customer |-> [name |-> <<order.customer.first_name,
                                    order.customer.last_name>>],
           trackingInfo |->
             [k \in 1..Len(order.fulfillments) |->
                [trackingNumber |-> order.fulfillments[k].tracking_number,
                 trackingCompany |-> order.fulfillments[k].tracking_company]]]

(***************************************************************************)
(* Order-status formatting.  A reply is a sequence of segments (records);  *)
(* appending text to a reply appends a segment.                            *)
(***************************************************************************)
\* a property an object does not have, as template literals print it
Undefined == <<"undefined">>

\* JavaScript's null as a fulfillment status
StatusNull == "null"

\* the keys of statusMap (the key null is the property name "null")
statusMap ==
  [s \in {"null", "pending", "fulfilled", "partial", "restocked", "paid",
          "partially_paid", "refunded", "voided"} |->
     CASE s = "null" -> "shori_chuu"
       [] s = "pending" -> "horyuu_chuu"
       [] s = "fulfilled" -> "hassou_zumi"
       [] s = "partial" -> "ichibu_hassou_zumi"
       [] s = "restocked" -> "henpin_zumi"
       [] s = "paid" -> "shiharai_zumi"
       [] s = "partially_paid" -> "ichibu_shiharai_zumi"
       [] s = "refunded" -> "henkin_zumi"
       [] s = "voided" -> "cancel_zumi"]

\* the label of the table, or the default label for whatever has no label
\* of its own among the codes
StatusLabelOrDefault(status) ==
  IF status \in DOMAIN statusMap \ {"null"} THEN statusMap[status]
  ELSE "kakunin_chuu"

\* statusMap[status] || status || "kakunin_chuu"; status is a status code,
\* StatusNull, or "undefined" for a property that is not there
getStatusInJapanese(status) ==
  IF status \in DOMAIN statusMap THEN statusMap[status]
  ELSE IF status # "undefined" /\ status # "" THEN status
  ELSE "kakunin_chuu"

Has(object, property) == property \in DOMAIN object

formatOrderStatusMessage(order) ==
  [kind |-> "order_status",
   number |-> IF Has(order, "order_number") THEN order.order_number
              ELSE IF Has(order, "name") THEN order.name
              ELSE Undefined,
   date |-> IF Has(order, "created_at")
            THEN [valid |-> TRUE, day |-> order.created_at]
            ELSE [valid |-> FALSE],
   customer |-> IF Has(order, "customer") /\ Has(order.customer, "first_name")
                THEN <<order.customer.first_name, order.customer.last_name>>
                ELSE <<"undefined", "undefined">>,
   status |-> getStatusInJapanese(IF Has(order, "fulfillment_status")
                                  THEN order.fulfillment_status
                                  ELSE "undefined"),
   detail |-> IF Has(order, "fulfillments") /\ Len(order.fulfillments) > 0
              THEN [kind |-> "tracking",
                    company |-> IF Truthy(order.fulfillments[1].tracking_company)
                                THEN order.fulfillments[1].tracking_company
                                ELSE <<"kakunin_chuu">>,
                    number |-> IF Truthy(order.fulfillments[1].tracking_number)
                               THEN order.fulfillments[1].tracking_number
                               ELSE <<"junbi_chuu">>]
              ELSE IF Has(order, "fulfillment_status")
                      /\ order.fulfillment_status = StatusNull
              THEN [kind |-> "preparing_shipment"]
              ELSE [kind |-> "none"]]

(***************************************************************************)
(* Dialogue engine: generateAIResponse up to the call of the generic       *)
(* response collaborator, as a function of the message, the Context and    *)
(* the conversation state the handler read.  The result is                 *)
(*   [write |-> the state handed to updateConversationState, or Null,      *)
(*    next  |-> "return" (reply is the reply), "completion" (the generic   *)
(*              collaborator is called) or "catch" (an exception was       *)
(*              thrown after the write),                                   *)
(*    reply |-> the reply].                                                *)
(***************************************************************************)
AskFullName == [kind |-> "ask_full_name"]

LoyaltyNote == [kind |-> "loyalty_note"]

EscalationNotice == [kind |-> "escalation_notice"]

ClarificationRequest == [kind |-> "clarification_request"]

\* the phrase whose presence in the collaborator's text is tested
HandOffPhrase == [kind |-> "tantousha_yori_gorenraku"]

Outcome(write, next, reply) == [write |-> write, next |-> next, reply |-> reply]

\* a numbered entry of the candidate list
ListEntry(order, index) ==
  [index |-> index,
   number |-> order.order_number,
   date |-> order.created_at,
   item |-> order.line_items[1].name,
   more |-> Len(order.line_items) - 1]

\* InShippingFlow without the test of the order number
ShippingWithoutOrderInfo(context) ==
  /\ context.category = CatShipping
  /\ ~Has(context, "orderInfo")

\* context.category === shipping && !context.orderNumber && !context.orderInfo
InShippingFlow(context) ==
  /\ context.category = CatShipping
  /\ ~Truthy(context.orderNumber)
  /\ ~Has(context, "orderInfo")

\* step 1: stage initial
AskNameStep ==
  Outcome([stage |-> "waiting_for_name", intent |-> "shipping_inquiry"],
          "return", <<AskFullName>>)

\* step 2: stage waiting_for_name with a customer name in the Context
NameStep(context) ==
  IF Has(context, "possibleOrders") /\ Len(context.possibleOrders) > 0
  THEN IF Len(context.possibleOrders) = 1
       THEN Outcome([stage |-> "initial"], "return",
                    <<formatOrderStatusMessage(context.possibleOrders[1])>>)
       ELSE LET state == [stage |-> "waiting_for_order_selection",
                          possibleOrders |-> context.possibleOrders,
                          customerName |-> context.customerName]
            IN IF \E k \in 1..Len(context.possibleOrders) :
                    Len(context.possibleOrders[k].line_items) = 0
               THEN Outcome(state, "catch", <<>>)
               ELSE Outcome(state, "return",
                      <<[kind |-> "order_list",
                         customerName |-> context.customerName,
                         entries |-> [k \in 1..Len(context.possibleOrders) |->
                                        ListEntry(context.possibleOrders[k], k)]]>>)
  ELSE Outcome([stage |-> "name_not_found",
                attemptedName |-> context.customerName],
               "return",
               <<[kind |-> "name_not_found",
                  customerName |-> context.customerName]>>)

\* selection && conversationState.possibleOrders
\*           && conversationState.possibleOrders[selection - 1]
ValidSelection(selection, conversationState) ==
  /\ ~selection.nan
  /\ selection.value # 0
  /\ Has(conversationState, "possibleOrders")
  /\ selection.value \in 1..Len(conversationState.possibleOrders)

\* step 3: stage waiting_for_order_selection with a valid selection
SelectionStep(selection, conversationState) ==
  Outcome([stage |-> "initial"], "return",
          <<formatOrderStatusMessage(
              conversationState.possibleOrders[selection.value])>>)

GreetingWords == <<
  <<"h_ko", "h_n", "h_ni", "h_chi", "h_ha">>,
  <<"h_ko", "h_n", "h_ni", "h_chi", "h_wa">>,
  <<"h_o", "h_ha", "h_yo", "h_u">>,
  <<"h_ko", "h_n", "h_ba", "h_n", "h_ha">>,
  <<"h_ko", "h_n", "h_ba", "h_n", "h_wa">>,
  <<"h_ha", "h_ji", "h_me", "h_ma", "h_shi", "h_te">> >>

BusinessHours == <<"j_ei", "j_gyou", "j_ji", "j_aida">>

\* the keys of categoryResponses
CannedCategories ==
  {CatShipping, CatStock, CatBusiness, CatCancel, CatPayment, CatProduct}

\* categoryResponses[context.category]()
categoryResponse(message, context) ==
  CASE context.category = CatShipping ->
         IF ~Truthy(context.orderNumber)
         THEN [kind |-> "canned", text |-> "shipping_ask_number_or_name"]
         ELSE [kind |-> "canned", text |-> "shipping_checking",
               number |-> context.orderNumber]
    [] context.category = CatBusiness ->
         IF Includes(message, BusinessHours)
         THEN [kind |-> "canned", text |-> "business_info"]
         ELSE IF SomeIncluded(message, GreetingWords)
         THEN [kind |-> "canned", text |-> "greeting"]
         ELSE [kind |-> "canned", text |-> "business_info"]
    [] context.category = CatStock -> [kind |-> "canned", text |-> "stock"]
    [] context.category = CatCancel -> [kind |-> "canned", text |-> "cancel_return"]
    [] context.category = CatPayment -> [kind |-> "canned", text |-> "payment"]
    [] context.category = CatProduct -> [kind |-> "canned", text |-> "product"]

\* CannedReply with the loyalty line whatever the history
CannedReplyAlwaysThanking(message, context) ==
  <<categoryResponse(message, context), LoyaltyNote>>

\* the canned response with the loyalty line when there is a history
CannedReply(message, context) ==
  IF Len(context.customerHistory) > 0
  THEN <<categoryResponse(message, context), LoyaltyNote>>
  ELSE <<categoryResponse(message, context)>>

\* AfterFlow with the category table consulted before the resolved order
AfterFlowCannedFirst(message, context) ==
  IF context.category \in CannedCategories
  THEN Outcome(Null, "return", CannedReply(message, context))
  ELSE IF Has(context, "orderInfo")
  THEN Outcome(Null, "return", <<formatOrderStatusMessage(context.orderInfo)>>)
  ELSE Outcome(Null, "completion", <<>>)

\* AfterFlow with the stage reset when it is reached from
\* waiting_for_order_selection
AfterFlowResetting(message, context) ==
  IF Has(context, "orderInfo")
  THEN Outcome([stage |-> "initial"], "return",
               <<formatOrderStatusMessage(context.orderInfo)>>)
  ELSE IF context.category \in CannedCategories
  THEN Outcome([stage |-> "initial"], "return", CannedReply(message, context))
  ELSE Outcome([stage |-> "initial"], "completion", <<>>)

\* AfterFlow with the collaborator asked for every category but shipping
AfterFlowAskingCollaborator(message, context) ==
  IF Has(context, "orderInfo")
  THEN Outcome(Null, "return", <<formatOrderStatusMessage(context.orderInfo)>>)
  ELSE IF context.category = CatShipping
  THEN Outcome(Null, "return", CannedReply(message, context))
  ELSE Outcome(Null, "completion", <<>>)

\* what follows the shipping-inquiry block: the resolved order, the canned
\* response of the category, or the generic response collaborator
AfterFlow(message, context) ==
  IF Has(context, "orderInfo")
  THEN Outcome(Null, "return", <<formatOrderStatusMessage(context.orderInfo)>>)
  ELSE IF context.category \in CannedCategories
  THEN Outcome(Null, "return", CannedReply(message, context))
  ELSE Outcome(Null, "completion", <<>>)

\* FlowStep with the customer name consulted before the stage
FlowStepNameFirst(message, context, conversationState) ==
  IF ~InShippingFlow(context) THEN ""
  ELSE IF Truthy(context.customerName) THEN "name"
  ELSE IF conversationState.stage = "initial" THEN "ask_name"
  ELSE IF conversationState.stage = "waiting_for_order_selection"
          /\ ValidSelection(parseInt(Trim(message)), conversationState)
       THEN "selection"
  ELSE ""

\* FlowStep with stage name_not_found taking another name
FlowStepRetryingName(message, context, conversationState) ==
  IF ~InShippingFlow(context) THEN ""
  ELSE IF conversationState.stage = "initial" THEN "ask_name"
  ELSE IF conversationState.stage \in {"waiting_for_name", "name_not_found"}
          /\ Truthy(context.customerName) THEN "name"
  ELSE IF conversationState.stage = "waiting_for_order_selection"
          /\ ValidSelection(parseInt(Trim(message)), conversationState)
       THEN "selection"
  ELSE ""

\* the stage of the shipping-inquiry block that replies, "" when none does
FlowStep(message, context, conversationState) ==
  IF ~InShippingFlow(context) THEN ""
  ELSE IF conversationState.stage = "initial" THEN "ask_name"
  ELSE IF conversationState.stage = "waiting_for_name"
          /\ Truthy(context.customerName) THEN "name"
  ELSE IF conversationState.stage = "waiting_for_order_selection"
          /\ ValidSelection(parseInt(Trim(message)), conversationState)
       THEN "selection"
  ELSE ""

generateAIResponse(message, context, conversationState) ==
  LET step == FlowStep(message, context, conversationState)
  IN CASE step = "ask_name" -> AskNameStep
       [] step = "name" -> NameStep(context)
       [] step = "selection" ->
            SelectionStep(parseInt(Trim(message)), conversationState)
       [] OTHER -> AfterFlow(message, context)

\* the texts the generic response collaborator may answer with
\* (completion.choices[0].message.content): some text, a text that holds the
\* hand-off phrase, the empty string
Completions == {<<[kind |-> "llm_text"]>>,
                <<[kind |-> "llm_text"], HandOffPhrase>>,
                <<>>}

\* response.includes(hand-off phrase)
IncludesHandOff(response) ==
  \E k \in 1..Len(response) : response[k] = HandOffPhrase

\* AfterCompletion that never replaces the collaborator's text
AfterCompletionKeeping(context, completion) ==
  IF context.requiresHumanReview
  THEN Append(completion, EscalationNotice)
  ELSE completion

\* generateAIResponse after the collaborator has answered
AfterCompletion(context, completion) ==
  LET response == IF IncludesHandOff(completion) /\ ~context.requiresHumanReview
                  THEN <<ClarificationRequest>>
                  ELSE completion
  IN IF context.requiresHumanReview
     THEN Append(response, EscalationNotice)
     ELSE response

\* the keys of fallbackResponses
FallbackCategories ==
  {CatShipping, CatStock, CatBusiness, CatCancel, CatPayment, CatProduct}

\* the catch branch of generateAIResponse
fallbackResponse(context) ==
  IF context.category \in FallbackCategories
  THEN <<[kind |-> "fallback", category |-> context.category]>>
  ELSE <<[kind |-> "fallback_generic"]>>

(***************************************************************************)
(* The world of the model: users, inbound messages, the shop's data.       *)
(***************************************************************************)
Users == {"U1", "U2"}

\* the user of the runs that follow one user only
OneUser == {"U1"}

\* the units of work that may run concurrently (one per webhook event)
Handlers == {"h1", "h2"}

\* the handlers that run in Spec: one event is handled at a time
OneAtATime == {"h1"}

\* "hassou ha itsu": shipping, no name, no number
MsgShipping == <<"j_hatsu", "j_sou", "h_ha", "h_i", "h_tsu">>

\* "Yamada Tarou desu, hassou ni tsuite oshiete": shipping, with a name
MsgNameShipping == <<"j_yama", "j_ta", "j_futo", "j_rou", "h_de", "h_su", ",",
                     "j_hatsu", "j_sou", "h_ni", "h_tsu", "h_i", "h_te",
                     "j_oshi", "h_e", "h_te">>

\* "Yamada Tarou": the bare name the bot asks for
MsgName == <<"j_yama", "j_ta", "j_futo", "j_rou">>

\* "2": the bare selection the bot asks for
MsgTwo == <<"2">>

\* "2 no hassou": a selection in a shipping message
MsgTwoShipping == <<"2", "h_no", "j_hatsu", "j_sou">>

\* "#1234 no hassou": shipping, with an order number
MsgOrderNumber == <<"#", "1", "2", "3", "4", "h_no", "j_hatsu", "j_sou">>

\* "kyanseru shitai": cancellation
MsgCancel == <<"k_ki", "k_xya", "k_n", "k_se", "k_ru", "h_shi", "h_ta", "h_i">>

\* "konnichiha": no category
MsgHello == <<"h_ko", "h_n", "h_ni", "h_chi", "h_ha">>

\* "0 no hassou": a selection of zero
MsgZeroShipping == <<"0", "h_no", "j_hatsu", "j_sou">>

\* "9 no hassou": a selection beyond the candidates
MsgNineShipping == <<"9", "h_no", "j_hatsu", "j_sou">>

\* "-1 no hassou": a negative selection
MsgMinusShipping == <<"-", "1", "h_no", "j_hatsu", "j_sou">>

\* "saiaku, hassou mada": shipping, with a distress keyword
MsgAngryShipping == <<"j_mottomo", "j_aku", ",", "j_hatsu", "j_sou", "h_ma", "h_ta">>

Messages == {MsgShipping, MsgNameShipping, MsgName, MsgTwo, MsgTwoShipping,
             MsgOrderNumber, MsgCancel, MsgHello, MsgAngryShipping,
             MsgZeroShipping, MsgNineShipping, MsgMinusShipping}

Yamada == [first_name |-> "Tarou", last_name |-> "Yamada"]

Order1234 ==
  [id |-> 1, order_number |-> <<"1", "2", "3", "4">>, created_at |-> 1,
   financial_status |-> "paid", fulfillment_status |-> "fulfilled",
   line_items |-> <<[name |-> "pillow"]>>,
   fulfillments |-> <<[tracking_company |-> <<"yamato">>,
                       tracking_number |-> <<"T", "1">>]>>,
   customer |-> Yamada]

Order1235 ==
  [id |-> 2, order_number |-> <<"1", "2", "3", "5">>, created_at |-> 2,
   financial_status |-> "paid", fulfillment_status |-> StatusNull,
   line_items |-> <<[name |-> "blanket"], [name |-> "eye mask"]>>,
   fulfillments |-> <<>>,
   customer |-> Yamada]

Order1236 ==
  [id |-> 3, order_number |-> <<"1", "2", "3", "6">>, created_at |-> 3,
   financial_status |-> "pending", fulfillment_status |-> "partial",
   line_items |-> <<[name |-> "cushion"]>>,
   fulfillments |-> <<[tracking_company |-> <<>>, tracking_number |-> <<>>]>>,
   customer |-> [first_name |-> "Tarou", last_name |-> "Ta"]]

\* no customer matches
ShopEmpty == [customers |-> <<>>, okCalls |-> 99]

\* one customer "Yamada Tarou" with one order
ShopOne ==
  [customers |-> <<[id |-> 1, name |-> MsgName, orders |-> <<Order1234>>]>>,
   okCalls |-> 99]

\* "Yamada Tarou" with two orders, found by every query, and "Ta Tarou" with
\* one, found by the query without the first character
ShopMany ==
  [customers |-> <<[id |-> 1, name |-> MsgName,
                    orders |-> <<Order1234, Order1235>>],
                   [id |-> 2, name |-> <<"j_ta", "j_futo", "j_rou">>,
                    orders |-> <<Order1236>>]>>,
   okCalls |-> 99]

\* every call fails
ShopDown == [customers |-> ShopMany.customers, okCalls |-> 0]

Shops == {ShopEmpty, ShopOne, ShopMany, ShopDown}

\* an order of the shop with the given id and creation time
SampleOrder(id, createdAt) ==
  [id |-> id, order_number |-> <<"2", "0", "0", Digits[id + 1]>>,
   created_at |-> createdAt,
   financial_status |-> "paid", fulfillment_status |-> StatusNull,
   line_items |-> <<[name |-> "pillow"]>>,
   fulfillments |-> <<>>,
   customer |-> Yamada]

\* seven orders of three customers: "Yamada Tarou", found by each of the
\* three queries for that name, "Yamada Taichi", found by the query without
\* the last character, and "Ueda Tarou", found by the query without the
\* first; two orders were created at the same time
ShopBig ==
  [customers |->
     <<[id |-> 1, name |-> MsgName,
        orders |-> <<SampleOrder(1, 1), SampleOrder(2, 2), SampleOrder(3, 3)>>],
       [id |-> 2, name |-> <<"j_yama", "j_ta", "j_futo", "j_ichi">>,
        orders |-> <<SampleOrder(4, 4), SampleOrder(5, 2)>>],
       [id |-> 3, name |-> <<"j_ue", "j_ta", "j_futo", "j_rou">>,
        orders |-> <<SampleOrder(6, 7), SampleOrder(7, 0)>>]>>,
   okCalls |-> 99]

\* the same shop, whose fourth call fails: for "Yamada Tarou" the first
\* query has returned its orders by then
ShopFlaky == [customers |-> ShopBig.customers, okCalls |-> 3]

\* the shops of the analysis runs
AnalysisShops == Shops \cup {ShopBig, ShopFlaky}

\* the pieces the texts of the analysis runs are made of
Parts == {
  <<"#", "1", "2", "3", "4">>,
  <<" ", "#", "9", "9", " ">>,
  <<"5">>,
  <<" ", "5", "6", "7", "8", "9", " ">>,
  LabelOrderNumber \o <<"fw_colon", "7", "7">>,
  <<"j_hatsu", "j_sou">>,
  <<"k_ki", "k_xya", "k_n", "k_se", "k_ru">>,
  <<"j_ei", "j_gyou", "j_ji", "j_aida">>,
  <<"j_mottomo", "j_aku">>,
  MsgName,
  <<"h_de", "h_su">>,
  <<" ">> }

MaxParts == 2

\* the texts made of n pieces
RECURSIVE TextsOf(_)
TextsOf(n) ==
  IF n = 0 THEN {<<>>}
  ELSE {text \o part : text \in TextsOf(n - 1), part \in Parts}

\* the texts of the analysis runs: one to MaxParts pieces
Texts == UNION {TextsOf(n) : n \in 1..MaxParts}

\* the inquiry histories the record store may answer with (a failed query
\* yields the empty list)
Histories == {<<>>, <<[kind |-> "past_inquiry"]>>}

\* 30 * 60 * 1000 ms, in ticks of 15 minutes
ExpiryDelay == 2

MaxTime == 3

MaxEvents == 3

\* what the pure parts of analyzeMessage find in each message: the order
\* number, the customer name, the category
Extracted ==
  [m \in Messages |->
     [orderNumber |-> extractOrderNumber(m),
      customerName |-> extractCustomerName(m),
      category |-> categorizeMessage(m)]]

\* the category of any text
Category(m) ==
  IF m \in Messages THEN Extracted[m].category ELSE categorizeMessage(m)

\* the same for any text
Extract(m) ==
  IF m \in Messages THEN Extracted[m]
  ELSE [orderNumber |-> extractOrderNumber(m),
        customerName |-> extractCustomerName(m),
        category |-> categorizeMessage(m)]

(***************************************************************************)
(* State.                                                                  *)
(***************************************************************************)
VARIABLES
  conversationStates,  \* the Map: user id -> conversation state
  timers,              \* the pending setTimeout callbacks, oldest first
  now,                 \* the clock, in ticks
  received,            \* the number of events received so far
  handler,             \* handler -> its position and local variables
  lastWritten,         \* history: user id -> the record last set, or Null
  shopOrders,          \* the orders as the shop holds them (their tags)
  pushed,              \* history: per order, the notifications delivered
  job,                 \* run of the notification job -> its position
  started              \* the number of runs started so far

\* the variables of the shipping-notification job
notification == <<shopOrders, pushed, job, started>>

vars == <<conversationStates, timers, now, received, handler, lastWritten,
          notification>>

\* the runs of the job that may be under way at once
Runs == {"r1", "r2"}

\* the orders of the last 24 hours: two fulfilled and tagged by the shop,
\* one fulfilled without tags, one not fulfilled
JobOrders ==
  <<[id |-> 1, fulfillment_status |-> "fulfilled", tags |-> <<"vip">>],
    [id |-> 2, fulfillment_status |-> "fulfilled", tags |-> <<>>],
    [id |-> 3, fulfillment_status |-> StatusNull, tags |-> <<"vip">>],
    [id |-> 4, fulfillment_status |-> "fulfilled", tags |-> <<"gift">>]>>

Idle == [pc |-> "idle"]

Init ==
  /\ conversationStates = <<>>
  /\ timers = <<>>
  /\ now = 0
  /\ received = 0
  /\ handler = [p \in Handlers |-> Idle]
  /\ lastWritten = [u \in Users |-> Null]
  /\ shopOrders = JobOrders
  /\ pushed = [k \in 1..Len(JobOrders) |-> 0]
  /\ job = [r \in Runs |-> Idle]
  /\ started = 0

(***************************************************************************)
(* Conversation state store.                                               *)
(***************************************************************************)
getConversationState(userId) ==
  IF userId \in DOMAIN conversationStates
  THEN conversationStates[userId]
  ELSE [stage |-> "initial"]

\* updateConversationState without the setTimeout
UpdateWithoutTimer(userId, state) ==
  /\ conversationStates' =
       [u \in DOMAIN conversationStates \cup {userId} |->
          IF u = userId
          THEN [updatedAt |-> now] @@ state
          ELSE conversationStates[u]]
  /\ timers' = timers

\* updateConversationState with the patch merged into the record the user
\* has
UpdateMerging(userId, state) ==
  /\ conversationStates' =
       [u \in DOMAIN conversationStates \cup {userId} |->
          IF u = userId
          THEN [updatedAt |-> now] @@ state @@ getConversationState(userId)
          ELSE conversationStates[u]]
  /\ timers' = Append(timers, [userId |-> userId, due |-> now + ExpiryDelay])

\* conversationStates.set(userId, {...state, updatedAt}) and the setTimeout
updateConversationState(userId, state) ==
  /\ conversationStates' =
       [u \in DOMAIN conversationStates \cup {userId} |->
          IF u = userId
          THEN [updatedAt |-> now] @@ state
          ELSE conversationStates[u]]
  /\ timers' = Append(timers, [userId |-> userId, due |-> now + ExpiryDelay])

\* a callback that runs and deletes nothing
TimerFiresWithoutDelete ==
  /\ timers # <<>>
  /\ Head(timers).due <= now
  /\ timers' = Tail(timers)
  /\ UNCHANGED <<conversationStates, now, received, handler, lastWritten,
                 notification>>

\* a callback that clears the store
TimerFiresClearingAll ==
  /\ timers # <<>>
  /\ Head(timers).due <= now
  /\ conversationStates' = <<>>
  /\ timers' = Tail(timers)
  /\ UNCHANGED <<now, received, handler, lastWritten,
                 notification>>

\* the setTimeout callback: conversationStates.delete(userId)
TimerFires ==
  /\ timers # <<>>
  /\ Head(timers).due <= now
  /\ conversationStates' =
       [u \in DOMAIN conversationStates \ {Head(timers).userId} |->
          conversationStates[u]]
  /\ timers' = Tail(timers)
  /\ UNCHANGED <<now, received, handler, lastWritten,
                 notification>>

\* time passes; a callback that is due runs before the clock moves on
Tick ==
  /\ now < MaxTime
  /\ \A k \in 1..Len(timers) : timers[k].due > now
  /\ now' = now + 1
  /\ UNCHANGED <<conversationStates, timers, received, handler, lastWritten,
                 notification>>

\* time passes beyond MaxTime as long as a callback is pending
TickWhilePending ==
  /\ now >= MaxTime
  /\ timers # <<>>
  /\ \A k \in 1..Len(timers) : timers[k].due > now
  /\ now' = now + 1
  /\ UNCHANGED <<conversationStates, timers, received, handler, lastWritten,
                 notification>>

(***************************************************************************)
(* handleEvent, one action per stretch between two suspensions.            *)
(***************************************************************************)
\* the name used when the profile cannot be read
DefaultUserName == "kokyaku"

\* profile.displayName, or the default when getProfile throws
UserNames == {"displayName", DefaultUserName}

\* a text message event arrives and the profile lookup ends, giving the
\* user name; the history is requested
ReceiveNamed(p, userId, message, userName) ==
  /\ handler[p].pc = "idle"
  /\ received < MaxEvents
  /\ received' = received + 1
  /\ handler' = [handler EXCEPT ![p] =
                   [pc |-> "analyze", userId |-> userId, userName |-> userName,
                    message |-> message]]
  /\ UNCHANGED <<conversationStates, timers, now, lastWritten,
                 notification>>

\* the same when the profile is read
Receive(p, userId, message) ==
  ReceiveNamed(p, userId, message, "displayName")

\* the end of analyzeMessage (category, escalation) and the start of
\* generateAIResponse, which reads the conversation state and requests the
\* templates
Analyzed(h, context) ==
  LET category == Category(h.message)
  IN [pc |-> "respond", userId |-> h.userId, userName |-> h.userName, message |-> h.message,
      context |-> [context EXCEPT
                     !.category = category,
                     !.requiresHumanReview =
                        shouldEscalateToHuman(h.message, category)],
      conversationState |-> getConversationState(h.userId)]

\* analyzeMessage from the answer of the record store to the commerce lookup
Analyze(p, history) ==
  LET h == handler[p]
      extracted == Extract(h.message)
      context == [orderNumber |-> extracted.orderNumber,
                  category |-> "",
                  requiresHumanReview |-> FALSE,
                  customerHistory |-> history,
                  customerName |-> extracted.customerName,
                  conversationState |-> getConversationState(h.userId)]
  IN /\ h.pc = "analyze"
     /\ handler' = [handler EXCEPT ![p] =
          IF Truthy(context.orderNumber) \/ Truthy(context.customerName)
          THEN [pc |-> "lookup", userId |-> h.userId, userName |-> h.userName, message |-> h.message,
                context |-> context]
          ELSE Analyzed(h, context)]
     /\ UNCHANGED <<conversationStates, timers, now, received, lastWritten,
                    notification>>

\* the commerce collaborator has answered; the handler remembers which shop
\* did (shop), for the claims only
Lookup(p, shop) ==
  LET h == handler[p]
      orderInfo == getOrderDetails(h.context.orderNumber, shop)
      context ==
        IF Truthy(h.context.orderNumber)
        THEN IF orderInfo = Null THEN h.context
             ELSE [orderInfo |-> orderInfo] @@ h.context
        ELSE [possibleOrders |->
                searchOrdersByCustomerName(h.context.customerName, shop)]
             @@ h.context
  IN /\ h.pc = "lookup"
     /\ handler' = [handler EXCEPT ![p] =
                      [shop |-> shop] @@ Analyzed(h, context)]
     /\ UNCHANGED <<conversationStates, timers, now, received, lastWritten,
                    notification>>

\* generateAIResponse once the templates are loaded, up to its return or to
\* the call of the generic response collaborator, deciding on the given
\* conversation state
RespondOn(p, conversationState) ==
  LET h == handler[p]
      r == generateAIResponse(h.message, h.context, conversationState)
  IN /\ h.pc = "respond"
     /\ IF r.write # Null
        THEN /\ updateConversationState(h.userId, r.write)
             /\ lastWritten' = [lastWritten EXCEPT
                                  ![h.userId] = [updatedAt |-> now] @@ r.write]
        ELSE UNCHANGED <<conversationStates, timers, lastWritten>>
     /\ handler' = [handler EXCEPT ![p] =
          CASE r.next = "return" ->
                 [pc |-> "save", userId |-> h.userId, userName |-> h.userName, message |-> h.message,
                  context |-> h.context, reply |-> r.reply]
            [] r.next = "catch" ->
                 [pc |-> "save", userId |-> h.userId, userName |-> h.userName, message |-> h.message,
                  context |-> h.context, reply |-> fallbackResponse(h.context)]
            [] r.next = "completion" ->
                 [pc |-> "completion", userId |-> h.userId, userName |-> h.userName,
                  message |-> h.message, context |-> h.context]]
     /\ UNCHANGED <<now, received,
                    notification>>

\* Respond with the conversation state read again after the templates are
\* loaded
RespondRereading(p) == RespondOn(p, getConversationState(handler[p].userId))

\* the conversation state is the one read before the templates were loaded
Respond(p) == RespondOn(p, handler[p].conversationState)

\* the generic response collaborator answers; the handler remembers its
\* text (completion), for the claims only
CompletionAnswers(p, completion) ==
  LET h == handler[p]
  IN /\ h.pc = "completion"
     /\ handler' = [handler EXCEPT ![p] =
          [pc |-> "save", userId |-> h.userId, userName |-> h.userName, message |-> h.message,
           context |-> h.context, completion |-> completion,
           reply |-> AfterCompletion(h.context, completion)]]
     /\ UNCHANGED <<conversationStates, timers, now, received, lastWritten,
                    notification>>

\* the generic response collaborator fails: the catch branch
CompletionFails(p) ==
  LET h == handler[p]
  IN /\ h.pc = "completion"
     /\ handler' = [handler EXCEPT ![p] =
          [pc |-> "save", userId |-> h.userId, userName |-> h.userName, message |-> h.message,
           context |-> h.context, reply |-> fallbackResponse(h.context)]]
     /\ UNCHANGED <<conversationStates, timers, now, received, lastWritten,
                    notification>>

\* Save with the error of saveToNotion ending the handler
SaveBlocking(p, saved) ==
  LET h == handler[p]
  IN /\ h.pc = "save"
     /\ handler' = [handler EXCEPT ![p] =
          IF saved
          THEN [pc |-> "reply", userId |-> h.userId, userName |-> h.userName,
                message |-> h.message, context |-> h.context,
                reply |-> h.reply, saved |-> saved]
          ELSE Idle]
     /\ UNCHANGED <<conversationStates, timers, now, received, lastWritten,
                    notification>>

\* saveToNotion has succeeded or thrown (the error is caught)
Save(p, saved) ==
  LET h == handler[p]
  IN /\ h.pc = "save"
     /\ handler' = [handler EXCEPT ![p] =
          [pc |-> "reply", userId |-> h.userId, userName |-> h.userName, message |-> h.message,
           context |-> h.context, reply |-> h.reply, saved |-> saved]]
     /\ UNCHANGED <<conversationStates, timers, now, received, lastWritten,
                    notification>>

\* lineClient.replyMessage: the handler is done
Deliver(p) ==
  /\ handler[p].pc = "reply"
  /\ handler' = [handler EXCEPT ![p] = Idle]
  /\ UNCHANGED <<conversationStates, timers, now, received, lastWritten,
                 notification>>

\* the steps of the handlers in running, for events of users with messages
\* of inbound
Handle(running, users, inbound) ==
  \/ \E p \in running, userId \in users, message \in inbound :
       Receive(p, userId, message)
  \/ \E p \in running, history \in Histories : Analyze(p, history)
  \/ \E p \in running, shop \in Shops : Lookup(p, shop)
  \/ \E p \in running : Respond(p)
  \/ \E p \in running, completion \in Completions :
       CompletionAnswers(p, completion)
  \/ \E p \in running : CompletionFails(p)
  \/ \E p \in running, saved \in BOOLEAN : Save(p, saved)
  \/ \E p \in running : Deliver(p)

Next ==
  \/ Handle(OneAtATime, Users, Messages)
  \/ TimerFires
  \/ Tick

\* every message, every user, one event handled at a time
Spec == Init /\ [][Next]_vars

\* analyzeMessage alone, for one event with any text of Texts
NextAnalyze ==
  \/ \E p \in OneAtATime, userId \in OneUser, message \in Texts :
       Receive(p, userId, message)
  \/ \E p \in OneAtATime, history \in Histories : Analyze(p, history)
  \/ \E p \in OneAtATime, shop \in AnalysisShops : Lookup(p, shop)

SpecAnalyze == Init /\ [][NextAnalyze]_vars

(***************************************************************************)
(* The dialogue state machine (claims C1 to C6).  A handler decides in its *)
(* Respond step, on the conversation state it read.                        *)
(***************************************************************************)
\* handler p takes its Respond step
Responds(p) == handler[p].pc = "respond" /\ handler'[p].pc # "respond"

\* the stage handler p read when generateAIResponse started
StageRead(p) == handler[p].conversationState.stage

\* the record the store holds for the user of handler p after the step
RecordAfter(p) == conversationStates'[handler[p].userId]

\* handler p has its reply
Replied(p) == handler[p].pc \in {"save", "reply"}

\* C1: for a user in stage initial (no stored state), a message of the
\* shipping category from which no order number is extracted is answered by
\* the request for the full name and sets the stage to waiting_for_name with
\* intent shipping_inquiry, also when the message holds an extractable name.
C1_FirstShippingMessageAsksName ==
  [][\A p \in Handlers :
       (/\ Responds(p)
        /\ StageRead(p) = "initial"
        /\ handler[p].context.category = CatShipping
        /\ handler[p].context.orderNumber = <<>>)
       => /\ handler'[p].pc = "save"
          /\ handler'[p].reply = <<AskFullName>>
          /\ RecordAfter(p) = [stage |-> "waiting_for_name",
                               intent |-> "shipping_inquiry",
                               updatedAt |-> now]]_vars

\* a name-bearing shipping message was answered by the request for the name
C1_Witness ==
  \E p \in Handlers :
    /\ handler[p].pc = "save"
    /\ handler[p].message = MsgNameShipping
    /\ Has(handler[p].context, "possibleOrders")
    /\ Len(handler[p].context.possibleOrders) > 0
    /\ handler[p].reply = <<AskFullName>>
    /\ handler[p].userId \in DOMAIN conversationStates
    /\ conversationStates[handler[p].userId].stage = "waiting_for_name"

\* C2: in stage waiting_for_name, a message that is a recognizable customer
\* name for which the resolver returns exactly one order is answered by the
\* formatted status of that order and resets the stage to initial.
C2_NameWithOneOrderResolves ==
  [][\A p \in Handlers :
       (/\ Responds(p)
        /\ StageRead(p) = "waiting_for_name"
        /\ Truthy(handler[p].context.customerName)
        /\ Has(handler[p].context, "possibleOrders")
        /\ Len(handler[p].context.possibleOrders) = 1)
       => /\ handler'[p].pc = "save"
          /\ handler'[p].reply =
               <<formatOrderStatusMessage(handler[p].context.possibleOrders[1])>>
          /\ RecordAfter(p).stage = "initial"]_vars

\* C3: in stage waiting_for_name, when the resolver returns N > 1 candidates
\* for the given name, the reply lists exactly N entries numbered 1..N in
\* the resolver's order and the stage becomes waiting_for_order_selection
\* with that candidate list and the name stored.
C3_SeveralOrdersAreListed ==
  [][\A p \in Handlers :
       (/\ Responds(p)
        /\ StageRead(p) = "waiting_for_name"
        /\ Truthy(handler[p].context.customerName)
        /\ Has(handler[p].context, "possibleOrders")
        /\ Len(handler[p].context.possibleOrders) > 1)
       => LET found == handler[p].context.possibleOrders
          IN /\ handler'[p].pc = "save"
             /\ Len(handler'[p].reply) = 1
             /\ handler'[p].reply[1].kind = "order_list"
             /\ Len(handler'[p].reply[1].entries) = Len(found)
             /\ \A k \in 1..Len(found) :
                  /\ handler'[p].reply[1].entries[k].index = k
                  /\ handler'[p].reply[1].entries[k].number = found[k].order_number
             /\ RecordAfter(p) = [stage |-> "waiting_for_order_selection",
                                  possibleOrders |-> found,
                                  customerName |-> handler[p].context.customerName,
                                  updatedAt |-> now]]_vars

\* the integer a message is, when it is a 1-based index into the candidates
\* stored in state (0 when it is none)
IndexGiven(message, state) ==
  LET n == parseInt(Trim(message))
  IN IF /\ ~n.nan
        /\ Has(state, "possibleOrders")
        /\ n.value >= 1
        /\ n.value <= Len(state.possibleOrders)
     THEN n.value
     ELSE 0

\* C4: in stage waiting_for_order_selection with N stored candidates, a
\* message that is the integer k, 1 <= k <= N, is answered by the formatted
\* status of the k-th candidate and sets the stage to initial; a message
\* leaves the stage only by this transition.
C4_IndexSelectsCandidate ==
  [][\A p \in Handlers :
       (/\ Responds(p)
        /\ StageRead(p) = "waiting_for_order_selection")
       => LET k == IndexGiven(handler[p].message, handler[p].conversationState)
          IN IF k # 0
             THEN /\ handler'[p].pc = "save"
                  /\ handler'[p].reply =
                       <<formatOrderStatusMessage(
                           handler[p].conversationState.possibleOrders[k])>>
                  /\ RecordAfter(p).stage = "initial"
             ELSE UNCHANGED conversationStates]_vars

\* C5: in stage waiting_for_name, when a customer name is in the Context and
\* the resolver returns no order (or failed), the reply is the
\* name-not-found message and the stage becomes name_not_found with
\* attemptedName the name extracted from this message.
C5_UnknownNameIsReported ==
  [][\A p \in Handlers :
       (/\ Responds(p)
        /\ StageRead(p) = "waiting_for_name"
        /\ Truthy(handler[p].context.customerName)
        /\ Has(handler[p].context, "possibleOrders")
        /\ Len(handler[p].context.possibleOrders) = 0)
       => /\ handler'[p].pc = "save"
          /\ handler'[p].reply =
               <<[kind |-> "name_not_found",
                  customerName |-> Extracted[handler[p].message].customerName]>>
          /\ RecordAfter(p) =
               [stage |-> "name_not_found",
                attemptedName |-> Extracted[handler[p].message].customerName,
                updatedAt |-> now]]_vars

\* C6: in stage waiting_for_order_selection, a message that is no valid
\* 1-based index into the stored candidates writes nothing to the store (no
\* record changes, no timer is scheduled), and a reply is produced all the
\* same: directly, or by the generic collaborator's answer or failure.
C6_InvalidSelectionWritesNothing ==
  [][\A p \in Handlers :
       /\ (/\ Responds(p)
           /\ StageRead(p) = "waiting_for_order_selection"
           /\ IndexGiven(handler[p].message, handler[p].conversationState) = 0)
          => /\ UNCHANGED <<conversationStates, timers>>
             /\ handler'[p].pc \in {"save", "completion"}
             /\ handler'[p].pc = "save" => Len(handler'[p].reply) > 0
       /\ (handler[p].pc = "completion" /\ handler'[p].pc # "completion")
          => handler'[p].pc = "save"]_vars

\* a selection beyond the candidates fell through while they stayed stored
C6_Witness ==
  \E p \in Handlers :
    /\ Replied(p)
    /\ handler[p].message = MsgNineShipping
    /\ IndexGiven(handler[p].message, handler[p].context.conversationState) = 0
    /\ handler[p].context.conversationState.stage = "waiting_for_order_selection"
    /\ handler[p].context.category = CatShipping
    /\ handler[p].userId \in DOMAIN conversationStates
    /\ conversationStates[handler[p].userId]
         = handler[p].context.conversationState

(***************************************************************************)
(* Replies (claims C7 and C8).                                             *)
(***************************************************************************)
\* C7 as stated: whenever the Context holds an order number or a resolved
\* order, the reply is the formatted order-status message.
C7_OrderNumberGivesStatus ==
  \A p \in Handlers :
    (/\ Replied(p)
     /\ \/ Truthy(handler[p].context.orderNumber)
        \/ Has(handler[p].context, "orderInfo"))
    => /\ Len(handler[p].reply) = 1
       /\ handler[p].reply[1].kind = "order_status"

\* C7 as amended: whenever the Context holds a resolved order, the reply is
\* the formatted order-status message of that order, in every stage and for
\* every category.
C7_ResolvedOrderGivesStatus ==
  \A p \in Handlers :
    (Replied(p) /\ Has(handler[p].context, "orderInfo"))
    => handler[p].reply = <<formatOrderStatusMessage(handler[p].context.orderInfo)>>

\* a resolved order was reported to a user who is not in stage initial, for
\* a message whose category has a canned response
C7_Witness ==
  \E p \in Handlers :
    /\ Replied(p)
    /\ Has(handler[p].context, "orderInfo")
    /\ handler[p].context.category \in CannedCategories
    /\ handler[p].context.conversationState.stage = "waiting_for_order_selection"
    /\ handler[p].reply[1].kind = "order_status"

\* C8: whenever requiresHumanReview is true, the reply ends with the
\* escalation notice, whichever branch produced it.
C8_EscalationNoticeInEveryBranch ==
  \A p \in Handlers :
    (Replied(p) /\ handler[p].context.requiresHumanReview)
    => handler[p].reply[Len(handler[p].reply)] = EscalationNotice

(***************************************************************************)
(* Expiry of the conversation state (claims C9 and C10).                   *)
(***************************************************************************)
\* C9: a record stays in the store for the full expiry delay after the most
\* recent set that wrote it; no timer of an earlier set removes it.
C9_RecordOutlivesOlderTimers ==
  \A u \in Users :
    (lastWritten[u] # Null /\ now < lastWritten[u].updatedAt + ExpiryDelay)
    => u \in DOMAIN conversationStates

\* C10: a conversation state that was not written for longer than the
\* expiry delay reads as the state of a user who never had a record,
\* whatever record was written last.
C10_UntouchedStateReadsAsInitial ==
  \A u \in Users :
    (lastWritten[u] # Null /\ now > lastWritten[u].updatedAt + ExpiryDelay)
    => getConversationState(u) = [stage |-> "initial"]

\* a record with candidates stored was left alone beyond the expiry delay
C10_Witness ==
  \E u \in Users :
    /\ lastWritten[u] # Null
    /\ lastWritten[u].stage = "waiting_for_order_selection"
    /\ now > lastWritten[u].updatedAt + ExpiryDelay
    /\ timers = <<>>

(***************************************************************************)
(* The conversation state store (claim C11).                               *)
(***************************************************************************)
\* the fields a record of the given stage is written with
SlotsOfStage(stage) ==
  CASE stage = "initial" -> {"stage", "updatedAt"}
    [] stage = "waiting_for_name" -> {"stage", "intent", "updatedAt"}
    [] stage = "waiting_for_order_selection" ->
         {"stage", "possibleOrders", "customerName", "updatedAt"}
    [] stage = "name_not_found" -> {"stage", "attemptedName", "updatedAt"}

\* a set for the user of handler p happens in this step
Sets(p) == Responds(p) /\ Len(timers') > Len(timers)

\* C11: the store holds at most one record per user identity; a get returns
\* the user's record, or the initial-stage default when there is none, and
\* creates nothing; a set replaces the user's record: the new record holds
\* the fields of the patch and the time of the set, no slot of the record it
\* replaces, and the records of the other users are untouched.
C11_SetReplacesGetCreatesNothing ==
  [][/\ DOMAIN conversationStates' \subseteq Users
     /\ \A p \in Handlers :
          (handler[p].pc = "analyze" /\ handler'[p].pc # "analyze")
          => /\ UNCHANGED <<conversationStates, timers>>
             /\ handler'[p].context.conversationState =
                  IF handler[p].userId \in DOMAIN conversationStates
                  THEN conversationStates[handler[p].userId]
                  ELSE [stage |-> "initial"]
     /\ \A p \in Handlers :
          Sets(p)
          => /\ DOMAIN RecordAfter(p) = SlotsOfStage(RecordAfter(p).stage)
             /\ RecordAfter(p).updatedAt = now
             /\ \A u \in DOMAIN conversationStates \ {handler[p].userId} :
                  /\ u \in DOMAIN conversationStates'
                  /\ conversationStates'[u] = conversationStates[u]]_vars

\* a selection replaced a record that held candidates and a name: the new
\* record has neither
C11_Witness ==
  \E p \in Handlers :
    /\ Replied(p)
    /\ Has(handler[p].context.conversationState, "possibleOrders")
    /\ handler[p].userId \in DOMAIN conversationStates
    /\ conversationStates[handler[p].userId].stage = "initial"
    /\ ~Has(conversationStates[handler[p].userId], "possibleOrders")
    /\ handler[p].reply[1].kind = "order_status"
    /\ handler[p].message = MsgTwoShipping

(***************************************************************************)
(* No terminal stage (claim C12).  One user's dialogue, with the event     *)
(* loop's guarantees: time passes, and a callback that is due runs.        *)
(***************************************************************************)
LiveUsers == {"U1"}

LiveMessages == {MsgShipping, MsgNameShipping, MsgTwoShipping, MsgHello}

NextLive ==
  \/ Handle(OneAtATime, LiveUsers, LiveMessages)
  \/ TimerFires
  \/ Tick
  \/ TickWhilePending

SpecLive ==
  /\ Init
  /\ [][NextLive]_vars
  /\ WF_vars(TimerFires)
  /\ WF_vars(Tick)
  /\ WF_vars(TickWhilePending)

\* the user has a record whose stage is not initial
InDialogue(u) ==
  /\ u \in DOMAIN conversationStates
  /\ conversationStates[u].stage
       \in {"waiting_for_name", "waiting_for_order_selection", "name_not_found"}

\* C12: there is no terminal stage: a user whose stage is waiting_for_name,
\* waiting_for_order_selection or name_not_found eventually has stage
\* initial or no record, by a transition to initial or by the expiry.
C12_EveryStageIsLeft ==
  \A u \in LiveUsers :
    InDialogue(u) ~> ~InDialogue(u)

\* a record of stage name_not_found, which no message leads out of, is gone
\* and no callback is pending
C12_Witness ==
  \E u \in LiveUsers :
    /\ lastWritten[u] # Null
    /\ lastWritten[u].stage = "name_not_found"
    /\ u \notin DOMAIN conversationStates
    /\ timers = <<>>

(***************************************************************************)
(* Concurrent messages of one user (claim C13): two handlers run, their    *)
(* steps interleave at every await.                                        *)
(***************************************************************************)
RaceUsers == {"U1"}

RaceMessages == {MsgNameShipping, MsgTwoShipping, MsgHello}

\* the shops of the race: no customer of the name, or one with two orders
RaceShops == {ShopEmpty, ShopMany}

\* the steps of both handlers; the collaborators other than the shop answer
\* in one way each (no history, one completion, the record saved)
NextRace ==
  \/ \E p \in Handlers, userId \in RaceUsers, message \in RaceMessages :
       Receive(p, userId, message)
  \/ \E p \in Handlers : Analyze(p, <<>>)
  \/ \E p \in Handlers, shop \in RaceShops : Lookup(p, shop)
  \/ \E p \in Handlers : Respond(p)
  \/ \E p \in Handlers : CompletionAnswers(p, <<[kind |-> "llm_text"]>>)
  \/ \E p \in Handlers : CompletionFails(p)
  \/ \E p \in Handlers : Save(p, TRUE)
  \/ \E p \in Handlers : Deliver(p)
  \/ TimerFires
  \/ Tick

SpecRace == Init /\ [][NextRace]_vars

\* C13: the store is last-writer-wins without locking: a handler decides on
\* the conversation state it read before its awaits, whatever the store
\* holds when it decides; its write replaces whatever another handler wrote
\* meanwhile; and the record in the store is always the one written last.
C13_LastWriterWins ==
  [][/\ \A p \in Handlers :
          Responds(p)
          => LET r == generateAIResponse(handler[p].message, handler[p].context,
                                         handler[p].conversationState)
             IN IF r.write = Null
                THEN UNCHANGED <<conversationStates, timers>>
                ELSE RecordAfter(p) = [updatedAt |-> now] @@ r.write
     /\ \A u \in DOMAIN conversationStates' :
          conversationStates'[u] = lastWritten'[u]]_vars

\* both handlers read stage waiting_for_name; the first stored the candidate
\* list it replies with, the second overwrote it with name_not_found
C13_Witness ==
  /\ \A p \in Handlers :
       /\ Replied(p)
       /\ handler[p].userId = "U1"
       /\ handler[p].context.conversationState.stage = "waiting_for_name"
  /\ handler["h1"].reply # <<>>
  /\ handler["h1"].reply[1].kind = "order_list"
  /\ handler["h2"].reply # <<>>
  /\ handler["h2"].reply[1].kind = "name_not_found"
  /\ "U1" \in DOMAIN conversationStates
  /\ conversationStates["U1"].stage = "name_not_found"

(***************************************************************************)
(* Failures (claims C14 and C15).                                          *)
(***************************************************************************)
\* handler p leaves the call of the generic response collaborator
CompletionEnds(p) ==
  handler[p].pc = "completion" /\ handler'[p].pc # "completion"

\* C14: the engine always returns a non-empty reply: its Respond step ends
\* with a non-empty reply or with the call of the generic collaborator, and
\* that call ends with a non-empty reply, which is the collaborator's answer
\* or, when the call failed, the fallback of the message's category (the
\* generic clarification request for a category without one).
C14_EngineAlwaysReplies ==
  [][\A p \in Handlers :
       /\ Responds(p)
          => /\ handler'[p].pc \in {"save", "completion"}
             /\ handler'[p].pc = "save" => handler'[p].reply # <<>>
       /\ CompletionEnds(p)
          => /\ handler'[p].pc = "save"
             /\ handler'[p].reply # <<>>
             /\ \/ \E completion \in Completions :
                     handler'[p].reply =
                       AfterCompletion(handler[p].context, completion)
                \/ handler'[p].reply =
                     IF handler[p].context.category \in FallbackCategories
                     THEN <<[kind |-> "fallback",
                             category |-> handler[p].context.category]>>
                     ELSE <<[kind |-> "fallback_generic"]>>]_vars

\* the fields of a Context that are never null when analyzeMessage returns
ContextFields ==
  {"orderNumber", "category", "requiresHumanReview", "customerHistory",
   "customerName", "conversationState"}

\* the labels categorizeMessage returns
Labels ==
  {CatShipping, CatOrder, CatCancel, CatStock, CatProduct, CatPayment,
   CatBusiness, CatOther}

\* C15: a failing call of the commerce collaborator is not fatal for
\* analyzeMessage: with a shop whose calls fail (all of them, or the fourth
\* one, after a query has returned orders), the lookup by order number
\* gives no order and the lookup by customer name the empty list, and the
\* Context that is returned is complete, with the category and the
\* escalation flag of the message.
C15_CommerceFailureIsNotFatal ==
  \A p \in Handlers :
    handler[p].pc = "respond"
    => LET h == handler[p]
       IN /\ ContextFields \subseteq DOMAIN h.context
          /\ h.context.category \in Labels
          /\ h.context.category = categorizeMessage(h.message)
          /\ h.context.requiresHumanReview \in BOOLEAN
          /\ (Has(h, "shop") /\ h.shop \in {ShopDown, ShopFlaky})
             => /\ ~Has(h.context, "orderInfo")
                /\ Truthy(h.context.orderNumber)
                   => ~Has(h.context, "possibleOrders")
                /\ ~Truthy(h.context.orderNumber)
                   => /\ Has(h.context, "possibleOrders")
                      /\ h.context.possibleOrders = <<>>

\* the lookup for "Yamada Tarou" failed at its fourth call, after the first
\* query had returned three orders: the Context holds the empty list
C15_Witness ==
  \E p \in Handlers :
    /\ handler[p].pc = "respond"
    /\ Has(handler[p], "shop")
    /\ handler[p].shop = ShopFlaky
    /\ handler[p].context.customerName = MsgName
    /\ Len(OrdersOfQuery(ShopFlaky, MsgName)) = 3
    /\ CallsOfQuery(ShopFlaky, MsgName) < 4
    /\ handler[p].context.possibleOrders = <<>>

(***************************************************************************)
(* The pure parts of the Context Builder (claims C16 to C19).              *)
(***************************************************************************)
\* the orders of the customers of shop whose name contains one of the queries
OrdersOfCustomersMatching(shop, queries) ==
  {shop.customers[c].orders[o] :
     <<c, o>> \in {co \in (1..Len(shop.customers)) \X (1..10) :
                     /\ co[2] <= Len(shop.customers[co[1]].orders)
                     /\ \E q \in queries :
                          Includes(shop.customers[co[1]].name, q)}}

\* C16: for a shop that answers every call, the candidates for a name are
\* taken from the orders found with the name as given, the name without
\* its last character and the name without its first character; they hold
\* no order twice, are sorted by creation time, the most recent first, are
\* at most 5, and no order that was found and left out is more recent than
\* one that was kept.
C16_CandidatesAreTheMostRecentOfThreeQueries ==
  \A p \in Handlers :
    (/\ handler[p].pc = "respond"
     /\ Has(handler[p], "shop")
     /\ handler[p].shop.okCalls = 99
     /\ Has(handler[p].context, "possibleOrders"))
    => LET name == handler[p].context.customerName
           found == handler[p].context.possibleOrders
           union == OrdersOfCustomersMatching(
                      handler[p].shop,
                      {name, SubSeq(name, 1, Len(name) - 1),
                       SubSeq(name, 2, Len(name))})
           kept == {found[k].id : k \in 1..Len(found)}
       IN /\ \A i, j \in 1..Len(found) : found[i].id = found[j].id => i = j
          /\ \A i, j \in 1..Len(found) :
               i < j => found[i].created_at >= found[j].created_at
          /\ Len(found) <= 5
          /\ \A k \in 1..Len(found) : found[k] \in union
          /\ Len(found) < 5 => \A o \in union : o.id \in kept
          /\ \A o \in union :
               o.id \notin kept
               => \A k \in 1..Len(found) : o.created_at <= found[k].created_at

\* for "Yamada Tarou" the shop with seven orders gave five candidates, the
\* first of them an order only the query without the first character finds
C16_Witness ==
  \E p \in Handlers :
    /\ handler[p].pc = "respond"
    /\ Has(handler[p], "shop")
    /\ handler[p].shop = ShopBig
    /\ handler[p].context.customerName = MsgName
    /\ Len(handler[p].context.possibleOrders) = 5
    /\ handler[p].context.possibleOrders[1].id = 6
    /\ Cardinality(OrdersOfCustomersMatching(ShopBig, {MsgName})) = 3

\* a trigger of the c-th category of the table occurs in the message
Triggers(message, c) ==
  \E k \in 1..Len(categories[c].keywords) :
    \E i \in 1..Len(message) :
      OccursAt(message, categories[c].keywords[k], i)

\* C17: the category of a message is one label of the fixed set: the
\* default label exactly when no trigger of any category occurs in the
\* message, and otherwise the label of the first category of the table one
\* of whose triggers occurs, whatever later categories have triggers in it;
\* the same message always gets the same label.
C17_FirstCategoryWithATriggerWins ==
  \A p \in Handlers :
    handler[p].pc = "respond"
    => LET message == handler[p].message
           label == handler[p].context.category
       IN /\ label \in Labels
          /\ label = categorizeMessage(message)
          /\ label = CatOther
             <=> \A c \in 1..Len(categories) : ~Triggers(message, c)
          /\ \A c \in 1..Len(categories) :
               (Triggers(message, c) /\ \A b \in 1..(c - 1) : ~Triggers(message, b))
               => label = categories[c].category

\* "kyanseru" then "hassou": triggers of the third and of the first category,
\* the first category wins
C17_Witness ==
  \E p \in Handlers :
    /\ handler[p].pc = "respond"
    /\ handler[p].message =
         <<"k_ki", "k_xya", "k_n", "k_se", "k_ru", "j_hatsu", "j_sou">>
    /\ Triggers(handler[p].message, 1)
    /\ Triggers(handler[p].message, 3)
    /\ handler[p].context.category = CatShipping

\* a distress keyword occurs in the message
Distress(message) ==
  \E k \in 1..Len(escalationKeywords) :
    \E i \in 1..Len(message) : OccursAt(message, escalationKeywords[k], i)

\* C18: requiresHumanReview of a Context is true exactly when a distress
\* keyword occurs in the message or the category of that message is
\* cancellation/return; for that category it is true whatever the text.
C18_EscalationIsKeywordOrCategory ==
  \A p \in Handlers :
    handler[p].pc = "respond"
    => LET message == handler[p].message
           context == handler[p].context
       IN /\ context.requiresHumanReview
             <=> (Distress(message) \/ context.category = CatCancel)
          /\ context.category = CatCancel => context.requiresHumanReview
          /\ context.requiresHumanReview
             = shouldEscalateToHuman(message, categorizeMessage(message))

\* "kyanseru" alone: no distress keyword, marked for human review
C18_Witness ==
  \E p \in Handlers :
    /\ handler[p].pc = "respond"
    /\ handler[p].message = <<"k_ki", "k_xya", "k_n", "k_se", "k_ru">>
    /\ ~Distress(handler[p].message)
    /\ handler[p].context.category = CatCancel
    /\ handler[p].context.requiresHumanReview

Hash1234 == <<"#", "1", "2", "3", "4">>

\* C19 as stated: for every message that contains #1234, the extracted
\* order number is 1234, whatever digit runs or #-prefixed numbers come
\* before or after it.
C19_Hash1234IsExtracted ==
  \A p \in Handlers :
    (/\ handler[p].pc = "respond"
     /\ \E i \in 1..Len(handler[p].message) :
          OccursAt(handler[p].message, Hash1234, i))
    => handler[p].context.orderNumber = <<"1", "2", "3", "4">>

\* the places of the message where a # is followed by a digit
HashNumbers(message) ==
  {i \in 1..(Len(message) - 1) : message[i] = "#" /\ IsDigit(message[i + 1])}

\* C19 as amended: when the first # of the message that is followed by a
\* digit starts #1234 and no digit follows the 4, the extracted order
\* number is 1234, whatever digit runs and labelled numbers come before or
\* after it and whatever #-prefixed numbers come after it.
C19_FirstHashNumberIsExtracted ==
  \A p \in Handlers :
    handler[p].pc = "respond"
    => LET message == handler[p].message
       IN (/\ HashNumbers(message) # {}
           /\ OccursAt(message, Hash1234, Min(HashNumbers(message)))
           /\ LET after == Min(HashNumbers(message)) + 5
              IN after > Len(message) \/ ~IsDigit(message[after]))
          => handler[p].context.orderNumber = <<"1", "2", "3", "4">>

\* a run of five digits, which the last pattern matches, comes before #1234
C19_Witness ==
  \E p \in Handlers :
    /\ handler[p].pc = "respond"
    /\ handler[p].message = <<" ", "5", "6", "7", "8", "9", " ">> \o Hash1234
    /\ handler[p].context.orderNumber = <<"1", "2", "3", "4">>

(***************************************************************************)
(* Frame of the conversation state (claim C20).                            *)
(***************************************************************************)
\* the message handler p is handling, before or after the step
Handled(p) ==
  IF handler[p].pc # "idle" THEN handler[p].message ELSE handler'[p].message

\* C20: only the shipping-inquiry flow writes the conversation state: no
\* step of the handling of a message whose category is not shipping, or
\* from which an order number is extracted, changes a record of the store
\* or schedules an expiry, whatever stage the user is in.
C20_OnlyTheShippingFlowWrites ==
  [][\A p \in Handlers :
       (/\ handler'[p] # handler[p]
        /\ \/ Extract(Handled(p)).category # CatShipping
           \/ Truthy(Extract(Handled(p)).orderNumber))
       => UNCHANGED <<conversationStates, timers>>]_vars

\* a shipping message with an order number that resolves to no order was
\* answered while the user waits for a name: the record is as it was read
C20_Witness ==
  \E p \in Handlers :
    /\ Replied(p)
    /\ handler[p].message = MsgOrderNumber
    /\ handler[p].context.category = CatShipping
    /\ ~Has(handler[p].context, "orderInfo")
    /\ handler[p].context.conversationState.stage = "waiting_for_name"
    /\ handler[p].userId \in DOMAIN conversationStates
    /\ conversationStates[handler[p].userId]
         = handler[p].context.conversationState
    /\ Len(timers) = 1

(***************************************************************************)
(* The dialogue of one user with a wider shop (claims C21 to C29).         *)
(***************************************************************************)
\* "saiaku": a word of escalationKeywords and of no category
MsgWorst == <<"j_mottomo", "j_aku">>

\* an order whose fulfillment status is a code statusMap has no key for
OrderOnHold ==
  [id |-> 8, order_number |-> <<"1", "2", "3", "8">>, created_at |-> 4,
   financial_status |-> "paid", fulfillment_status |-> "on_hold",
   line_items |-> <<[name |-> "pillow"]>>,
   fulfillments |-> <<>>,
   customer |-> Yamada]

\* an order the shop returns without line items
OrderNoItems ==
  [id |-> 9, order_number |-> <<"1", "2", "3", "9">>, created_at |-> 5,
   financial_status |-> "paid", fulfillment_status |-> StatusNull,
   line_items |-> <<>>,
   fulfillments |-> <<>>,
   customer |-> Yamada]

\* "Yamada Tarou" with the one order that is on hold
ShopOnHold ==
  [customers |-> <<[id |-> 1, name |-> MsgName, orders |-> <<OrderOnHold>>]>>,
   okCalls |-> 99]

\* "Yamada Tarou" with two orders, one of them without line items
ShopNoItems ==
  [customers |-> <<[id |-> 1, name |-> MsgName,
                    orders |-> <<Order1234, OrderNoItems>>]>>,
   okCalls |-> 99]

DialogueShops == Shops \cup {ShopBig, ShopOnHold, ShopNoItems}

DialogueMessages == {MsgShipping, MsgNameShipping, MsgTwoShipping,
                     MsgOrderNumber, MsgCancel, MsgTwo, MsgWorst}

NextDialogue ==
  \/ \E p \in OneAtATime, userId \in OneUser, message \in DialogueMessages,
          userName \in UserNames :
       ReceiveNamed(p, userId, message, userName)
  \/ \E p \in OneAtATime, history \in Histories : Analyze(p, history)
  \/ \E p \in OneAtATime, shop \in DialogueShops : Lookup(p, shop)
  \/ \E p \in OneAtATime : Respond(p)
  \/ \E p \in OneAtATime, completion \in Completions :
       CompletionAnswers(p, completion)
  \/ \E p \in OneAtATime : CompletionFails(p)
  \/ \E p \in OneAtATime, saved \in BOOLEAN : Save(p, saved)
  \/ \E p \in OneAtATime : Deliver(p)
  \/ TimerFires
  \/ Tick

\* one user, one event handled at a time, every answer of the collaborators
SpecDialogue == Init /\ [][NextDialogue]_vars

\* the order handler p reports in its order-status message: the resolved
\* order of the Context, the only candidate, or the candidate selected
ReportedOrder(p) ==
  LET h == handler[p]
  IN IF Has(h.context, "orderInfo")
     THEN [number |-> h.context.orderInfo.orderNumber,
           status |-> h.context.orderInfo.fulfillmentStatus]
     ELSE IF h.conversationState.stage = "waiting_for_name"
     THEN [number |-> h.context.possibleOrders[1].order_number,
           status |-> h.context.possibleOrders[1].fulfillment_status]
     ELSE LET order == h.conversationState.possibleOrders[
                         parseInt(Trim(h.message)).value]
          IN [number |-> order.order_number,
              status |-> order.fulfillment_status]

\* handler p replies with an order-status message in its Respond step
ReportsOrder(p) ==
  /\ Responds(p)
  /\ handler'[p].pc = "save"
  /\ handler'[p].reply # <<>>
  /\ handler'[p].reply[1].kind = "order_status"

\* C21: every order-status message shows in its header the order number and
\* in its status line the label of the fulfillment status of the order that
\* is reported, be it the only candidate found by name, the candidate selected
\* by index or the order resolved by its number.
C21_StatusMessageShowsTheOrderReported ==
  [][\A p \in Handlers :
       ReportsOrder(p) =>
         /\ handler'[p].reply[1].number = ReportedOrder(p).number
         /\ handler'[p].reply[1].status =
              getStatusInJapanese(ReportedOrder(p).status)]_vars

\* the canned texts of each category of categoryResponses
CannedTexts(category) ==
  CASE category = CatShipping ->
         {"shipping_ask_number_or_name", "shipping_checking"}
    [] category = CatBusiness -> {"business_info", "greeting"}
    [] category = CatStock -> {"stock"}
    [] category = CatCancel -> {"cancel_return"}
    [] category = CatPayment -> {"payment"}
    [] category = CatProduct -> {"product"}
    [] OTHER -> {}

\* no branch of the shipping-inquiry block replies to the message of handler
\* p and no resolved order is in its Context
LeftToCategory(p) ==
  /\ FlowStep(handler[p].message, handler[p].context,
              handler[p].conversationState) = ""
  /\ ~Has(handler[p].context, "orderInfo")

\* C22: the generic response collaborator is called exactly when no branch
\* of the state machine replied, no resolved order is in the Context and the
\* category has no entry in the canned-response table; for a category with an
\* entry the reply is one of the canned texts of that category and the
\* collaborator is not called.
C22_CollaboratorOnlyWithoutCannedEntry ==
  [][\A p \in Handlers :
       Responds(p) =>
         /\ handler'[p].pc = "completion" <=>
              /\ LeftToCategory(p)
              /\ handler[p].context.category \notin CannedCategories
         /\ (/\ LeftToCategory(p)
             /\ handler[p].context.category \in CannedCategories)
            => /\ handler'[p].pc = "save"
               /\ handler'[p].reply[1].kind = "canned"
               /\ handler'[p].reply[1].text \in
                    CannedTexts(handler[p].context.category)]_vars

\* the collaborator has been called for a message of no canned category,
\* sent in the middle of a shipping inquiry
C22_Witness ==
  \E p \in Handlers :
    /\ handler[p].pc = "completion"
    /\ handler[p].context.category \notin CannedCategories
    /\ handler[p].context.conversationState.stage = "waiting_for_name"

\* the generic response collaborator has answered handler p
Answered(p) ==
  /\ handler[p].pc = "save"
  /\ Has(handler[p], "completion")

\* C23: when the text of the generic response collaborator holds the hand-off
\* phrase and requiresHumanReview is false, the reply is the clarification
\* request and not that text; when requiresHumanReview is true the text is
\* kept (the escalation notice follows it); so a reply that holds the
\* hand-off phrase is only sent for a message marked for human review.
C23_HandOffOnlyUnderHumanReview ==
  \A p \in Handlers :
    /\ Answered(p) =>
         LET h == handler[p]
         IN /\ (IncludesHandOff(h.completion)
                /\ ~h.context.requiresHumanReview)
               => h.reply = <<ClarificationRequest>>
            /\ h.context.requiresHumanReview
               => h.reply = Append(h.completion, EscalationNotice)
    /\ (Replied(p) /\ IncludesHandOff(handler[p].reply))
       => handler[p].context.requiresHumanReview

\* the collaborator's text held the hand-off phrase for a message that is
\* not marked for human review
C23_Witness ==
  \E p \in Handlers :
    /\ Answered(p)
    /\ IncludesHandOff(handler[p].completion)
    /\ ~handler[p].context.requiresHumanReview
    /\ handler[p].reply = <<ClarificationRequest>>

\* the object handler p passes to formatOrderStatusMessage
OrderPassed(p) ==
  LET h == handler[p]
  IN IF Has(h.context, "orderInfo") THEN h.context.orderInfo
     ELSE IF h.conversationState.stage = "waiting_for_name"
     THEN h.context.possibleOrders[1]
     ELSE h.conversationState.possibleOrders[parseInt(Trim(h.message)).value]

\* order.fulfillment_status as getStatusInJapanese receives it
StatusPassed(p) ==
  IF Has(OrderPassed(p), "fulfillment_status")
  THEN OrderPassed(p).fulfillment_status
  ELSE "undefined"

\* the status codes of the table (its keys but null)
StatusCodes == DOMAIN statusMap \ {StatusNull}

\* C24 as stated: the status shown in an order-status message is the label
\* of the table for a mapped code, and the default label kakunin_chuu for
\* every code that is not in the table and for a null status.
C24_UnmappedAndNullShowDefault ==
  [][\A p \in Handlers :
       ReportsOrder(p) =>
         handler'[p].reply[1].status =
           IF StatusPassed(p) \in StatusCodes
           THEN statusMap[StatusPassed(p)]
           ELSE "kakunin_chuu"]_vars

\* C24, amended: the status shown is the label of the table for a mapped
\* code, the label shori_chuu the table holds under the key null for a null
\* status, the code itself for any other code that is not empty, and the
\* default label kakunin_chuu only when the status is missing or empty.
C24_NullIsMappedUnmappedShowsTheCode ==
  [][\A p \in Handlers :
       ReportsOrder(p) =>
         handler'[p].reply[1].status =
           IF StatusPassed(p) \in StatusCodes
           THEN statusMap[StatusPassed(p)]
           ELSE IF StatusPassed(p) = StatusNull THEN "shori_chuu"
           ELSE IF StatusPassed(p) \in {"undefined", ""} THEN "kakunin_chuu"
           ELSE StatusPassed(p)]_vars

\* an order-status message shows a code the table has no label for
C24_Witness ==
  \E p \in Handlers :
    /\ Replied(p)
    /\ handler[p].reply # <<>>
    /\ handler[p].reply[1].kind = "order_status"
    /\ handler[p].reply[1].status = OrderOnHold.fulfillment_status
    /\ handler[p].reply[1].number = OrderOnHold.order_number

\* a step of handler p on the event it has received, whatever the
\* collaborators answer, the commerce collaborator answering as one of shops
HandlerStep(p, shops) ==
  \/ \E history \in Histories : Analyze(p, history)
  \/ \E shop \in shops : Lookup(p, shop)
  \/ Respond(p)
  \/ \E completion \in Completions : CompletionAnswers(p, completion)
  \/ CompletionFails(p)
  \/ \E saved \in BOOLEAN : Save(p, saved)
  \/ Deliver(p)

DeliverMessages == {MsgNameShipping, MsgOrderNumber, MsgWorst}

DeliverShops == {ShopMany, ShopNoItems, ShopDown}

NextDeliver ==
  \/ \E p \in OneAtATime, userId \in OneUser, message \in DeliverMessages,
          userName \in UserNames :
       ReceiveNamed(p, userId, message, userName)
  \/ \E p \in OneAtATime : HandlerStep(p, DeliverShops)

\* the step handler p can take at every stage: the call it awaits fails, or
\* it awaits none
Settles(p) ==
  \/ Analyze(p, <<>>)
  \/ Lookup(p, ShopDown)
  \/ Respond(p)
  \/ CompletionFails(p)
  \/ Save(p, FALSE)
  \/ Deliver(p)

\* every call a handler awaits settles and the handler goes on when it has:
\* no handler stays at a stage for ever (any step of the handler, whatever
\* the answer, leaves the stage and disables Settles)
SpecDeliver ==
  /\ Init
  /\ [][NextDeliver]_vars
  /\ \A p \in OneAtATime : WF_vars(Settles(p))

\* C25: for every text message event one reply delivery is attempted and no
\* more: the handler of an event comes to deliver, it delivers the reply of
\* the engine, it does so only after the append of the inquiry record was
\* attempted, whether the append succeeded or failed and whether the profile
\* was read or not, and the delivery ends the handling of the event.
C25_OneReplyAfterTheAppend ==
  /\ \A p \in OneAtATime :
       /\ (handler[p].pc = "analyze") ~> (handler[p].pc = "reply")
       /\ (handler[p].pc = "reply") ~> (handler[p].pc = "idle")
  /\ [][\A p \in Handlers :
          /\ (handler[p].pc # "reply" /\ handler'[p].pc = "reply")
             => /\ handler[p].pc = "save"
                /\ handler'[p].reply = handler[p].reply
          /\ (handler[p].pc = "save" /\ handler'[p].pc # "save")
             => handler'[p].pc = "reply"
          /\ (handler[p].pc # "idle" /\ handler'[p].pc = "idle")
             => handler[p].pc = "reply"
          /\ (handler[p].pc = "reply" /\ handler'[p] # handler[p])
             => handler'[p].pc = "idle"]_vars

\* a reply is about to be delivered although neither the profile was read
\* nor the inquiry record appended
C25_Witness ==
  \E p \in Handlers :
    /\ handler[p].pc = "reply"
    /\ handler[p].userName = DefaultUserName
    /\ ~handler[p].saved
    /\ handler[p].reply # <<>>

\* the reply holds the loyalty acknowledgment line
HasLoyaltyNote(reply) ==
  \E k \in 1..Len(reply) : reply[k] = LoyaltyNote

\* C26: the loyalty acknowledgment line is in a reply exactly when the reply
\* is a canned category response and the customer history is not empty: no
\* reply of the state machine, order-status message, reply of the generic
\* collaborator or failure fallback holds it.
C26_LoyaltyLineOnlyOnCannedWithHistory ==
  \A p \in Handlers :
    Replied(p) =>
      (HasLoyaltyNote(handler[p].reply) <=>
         /\ handler[p].reply # <<>>
         /\ handler[p].reply[1].kind = "canned"
         /\ Len(handler[p].context.customerHistory) > 0)

\* a canned response to a customer with a history
C26_Witness ==
  \E p \in Handlers :
    /\ Replied(p)
    /\ handler[p].reply # <<>>
    /\ handler[p].reply[1].kind = "canned"
    /\ Len(handler[p].context.customerHistory) > 0
    /\ handler[p].reply[Len(handler[p].reply)] = LoyaltyNote

\* the store holds a record of user u in stage name_not_found
NameNotFound(u) ==
  /\ u \in DOMAIN conversationStates
  /\ conversationStates[u].stage = "name_not_found"

\* the step is the firing of an expiry timer of user u
ExpiryOf(u) ==
  /\ timers # <<>>
  /\ Head(timers).userId = u
  /\ Head(timers).due <= now
  /\ timers' = Tail(timers)
  /\ UNCHANGED handler

\* C27: stage name_not_found is absorbing under messages: a handler that
\* read it writes nothing, whatever the message (also a shipping message
\* with a name that has orders), so that a stored record in stage
\* name_not_found keeps its stage and slots until the firing of an expiry
\* timer of the user deletes it.
C27_NameNotFoundIsLeftOnlyByExpiry ==
  [][/\ \A p \in Handlers :
          (Responds(p) /\ StageRead(p) = "name_not_found")
          => UNCHANGED <<conversationStates, timers>>
     /\ \A u \in Users :
          NameNotFound(u) =>
            \/ /\ u \in DOMAIN conversationStates'
               /\ conversationStates'[u] = conversationStates[u]
            \/ /\ u \notin DOMAIN conversationStates'
               /\ ExpiryOf(u)]_vars

\* a shipping message with a name that has orders has been answered in
\* stage name_not_found, and the record is as it was
C27_Witness ==
  \E p \in Handlers :
    /\ Replied(p)
    /\ handler[p].context.conversationState.stage = "name_not_found"
    /\ handler[p].context.category = CatShipping
    /\ Has(handler[p].context, "possibleOrders")
    /\ Len(handler[p].context.possibleOrders) > 0
    /\ NameNotFound(handler[p].userId)
    /\ conversationStates[handler[p].userId] = lastWritten[handler[p].userId]

\* the stages the engine writes
Stages ==
  {"initial", "waiting_for_name", "waiting_for_order_selection",
   "name_not_found"}

\* C28: in every reachable state of the store, a record has a possibleOrders
\* slot if and only if its stage is waiting_for_order_selection, the list
\* then holds between 2 and 5 orders with pairwise distinct identities, and
\* the stage of every record is one of initial, waiting_for_name,
\* waiting_for_order_selection, name_not_found.
C28_CandidateListOnlyInSelectionStage ==
  \A u \in DOMAIN conversationStates :
    LET record == conversationStates[u]
    IN /\ record.stage \in Stages
       /\ Has(record, "possibleOrders")
          <=> record.stage = "waiting_for_order_selection"
       /\ Has(record, "possibleOrders") =>
            /\ Len(record.possibleOrders) \in 2..MaxCandidates
            /\ \A i, j \in 1..Len(record.possibleOrders) :
                 i # j => record.possibleOrders[i].id
                          # record.possibleOrders[j].id

\* a record in stage waiting_for_order_selection holds the five most recent
\* of more orders
C28_Witness ==
  \E u \in DOMAIN conversationStates :
    /\ conversationStates[u].stage = "waiting_for_order_selection"
    /\ Len(conversationStates[u].possibleOrders) = MaxCandidates

\* the reply is one of the texts of the catch branch
IsFallback(reply) ==
  /\ reply # <<>>
  /\ reply[1].kind \in {"fallback", "fallback_generic"}

\* C29: whenever the engine returns a failure fallback for a message, the
\* conversation state of the user is what it was before the message was
\* handled: the step that ends in the catch branch has not written to the
\* store, and neither has the step that called the generic collaborator
\* before it failed.
C29_FallbackLeavesTheStateAlone ==
  [][\A p \in Handlers :
       /\ (/\ handler[p].pc \in {"respond", "completion"}
           /\ handler'[p].pc = "save"
           /\ IsFallback(handler'[p].reply))
          => UNCHANGED <<conversationStates, timers>>
       /\ (handler[p].pc = "respond" /\ handler'[p].pc = "completion")
          => UNCHANGED <<conversationStates, timers>>]_vars

(***************************************************************************)
(* Two users whose events are handled concurrently (claim C30).            *)
(***************************************************************************)
IsolationMessages == {MsgShipping, MsgNameShipping}

IsolationShops == {ShopMany}

\* the users whose events handler p takes: which handler takes an event
\* makes no difference, so the first takes those of one user only
UsersOf(p) == IF p = "h1" THEN OneUser ELSE Users

NextIsolation ==
  \/ \E p \in Handlers, message \in IsolationMessages :
       \E userId \in UsersOf(p) : Receive(p, userId, message)
  \/ \E p \in Handlers : Analyze(p, <<>>)
  \/ \E p \in Handlers, shop \in IsolationShops : Lookup(p, shop)
  \/ \E p \in Handlers : Respond(p)
  \/ \E p \in Handlers : Save(p, TRUE)
  \/ \E p \in Handlers : Deliver(p)
  \/ TimerFires
  \/ Tick

\* the events of two users, handled by two handlers that interleave at
\* every await, and the expiry timers
SpecIsolation == Init /\ [][NextIsolation]_vars

\* the step creates, changes or deletes the record of user u
Touches(u) ==
  \/ (u \in DOMAIN conversationStates) # (u \in DOMAIN conversationStates')
  \/ /\ u \in DOMAIN conversationStates
     /\ u \in DOMAIN conversationStates'
     /\ conversationStates'[u] # conversationStates[u]

\* C30: conversation state is isolated per user: under every interleaving of
\* the handlers and the expiry timers, the record of a user is created,
\* changed or deleted only by the Respond step of a handler of a message of
\* that user or by the firing of a timer scheduled for that user, and the
\* state a handler decides on (hence its reply) is the record of the user of
\* its own message.
C30_RecordsAreIsolatedPerUser ==
  [][/\ \A u \in Users :
          Touches(u) =>
            \/ \E p \in Handlers : Responds(p) /\ handler[p].userId = u
            \/ ExpiryOf(u)
     /\ \A p \in Handlers :
          (handler[p].pc # "respond" /\ handler'[p].pc = "respond")
          => handler'[p].conversationState =
               getConversationState(handler[p].userId)]_vars

\* the events of the two users are in hand at the same time and their
\* records are in different stages
C30_Witness ==
  /\ \A p \in Handlers : handler[p].pc # "idle"
  /\ handler["h1"].userId # handler["h2"].userId
  /\ Users \subseteq DOMAIN conversationStates
  /\ conversationStates["U1"].stage = "waiting_for_order_selection"
  /\ conversationStates["U2"].stage = "waiting_for_name"

(***************************************************************************)
(* The shipping-notification job (claim C31): cron starts a run every five *)
(* minutes, whether the run before has ended or not.                       *)
(***************************************************************************)
MaxRuns == 2

NotifiedTag == <<"line_notified">>

\* order.tags ? `${order.tags},line_notified` : 'line_notified'
TaggedAsNotified(tags) ==
  IF Truthy(tags) THEN tags \o <<",">> \o NotifiedTag ELSE NotifiedTag

\* fulfilled && order.tags && !order.tags.includes('line_notified')
ToNotify(order) ==
  /\ order.fulfillment_status = "fulfilled"
  /\ Truthy(order.tags)
  /\ ~Includes(order.tags, NotifiedTag)

\* the run goes through the orders it fetched, from the given index, up to
\* the first it has to notify, whose LINE id it looks up, or to the end
JobScan(orders, from) ==
  LET todo == {k \in from..Len(orders) : ToNotify(orders[k])}
  IN IF todo = {} THEN Idle
     ELSE [pc |-> "find", orders |-> orders, index |-> Min(todo)]

\* cron fires
JobStarts(r) ==
  /\ job[r].pc = "idle"
  /\ started < MaxRuns
  /\ started' = started + 1
  /\ job' = [job EXCEPT ![r] = [pc |-> "fetch"]]
  /\ UNCHANGED <<conversationStates, timers, now, received, handler,
                 lastWritten, shopOrders, pushed>>

\* the shop answers the query for the orders, or the query fails
JobFetches(r, ok) ==
  /\ job[r].pc = "fetch"
  /\ job' = [job EXCEPT ![r] = IF ok THEN JobScan(shopOrders, 1) ELSE Idle]
  /\ UNCHANGED <<conversationStates, timers, now, received, handler,
                 lastWritten, shopOrders, pushed, started>>

\* findLineUserIdByEmail answers: a LINE id, or none (also when it fails)
JobFinds(r, found) ==
  /\ job[r].pc = "find"
  /\ job' = [job EXCEPT ![r] =
               IF found THEN [job[r] EXCEPT !.pc = "push"]
               ELSE JobScan(job[r].orders, job[r].index + 1)]
  /\ UNCHANGED <<conversationStates, timers, now, received, handler,
                 lastWritten, shopOrders, pushed, started>>

\* sendShippingNotification: the push is delivered, or fails and the error
\* is logged; the tag update is requested
JobPushes(r, ok) ==
  /\ job[r].pc = "push"
  /\ pushed' = [pushed EXCEPT ![job[r].index] = @ + (IF ok THEN 1 ELSE 0)]
  /\ job' = [job EXCEPT ![r] = [job[r] EXCEPT !.pc = "tag"]]
  /\ UNCHANGED <<conversationStates, timers, now, received, handler,
                 lastWritten, shopOrders, started>>

\* the tag update is done, with the tags the run fetched, and the run goes
\* on; or it fails and the run ends in its catch
JobTags(r, ok) ==
  /\ job[r].pc = "tag"
  /\ IF ok
     THEN /\ shopOrders' =
               [shopOrders EXCEPT ![job[r].index].tags =
                  TaggedAsNotified(job[r].orders[job[r].index].tags)]
          /\ job' = [job EXCEPT ![r] =
                       JobScan(job[r].orders, job[r].index + 1)]
     ELSE /\ job' = [job EXCEPT ![r] = Idle]
          /\ UNCHANGED shopOrders
  /\ UNCHANGED <<conversationStates, timers, now, received, handler,
                 lastWritten, pushed, started>>

NextJob ==
  \/ \E r \in Runs : JobStarts(r)
  \/ \E r \in Runs, ok \in BOOLEAN : JobFetches(r, ok)
  \/ \E r \in Runs, found \in BOOLEAN : JobFinds(r, found)
  \/ \E r \in Runs, ok \in BOOLEAN : JobPushes(r, ok)
  \/ \E r \in Runs, ok \in BOOLEAN : JobTags(r, ok)

SpecJob == Init /\ [][NextJob]_vars

\* a run has pushed the notification of order k and has still to tag it
BeingTagged(k) ==
  \E r \in Runs : job[r].pc = "tag" /\ job[r].index = k

\* C31: across all runs of the job a shipping notification is pushed at most
\* once per order: an order is notified only while it is fulfilled and its
\* tags do not hold line_notified, and once it has been notified it carries
\* line_notified, also when the push or the tag update fails or two runs
\* overlap.
C31_EachOrderIsNotifiedOnce ==
  \A k \in 1..Len(shopOrders) :
    /\ pushed[k] <= 1
    /\ pushed[k] > 0 => shopOrders[k].fulfillment_status = "fulfilled"
    /\ (pushed[k] > 0 /\ ~BeingTagged(k))
       => Includes(shopOrders[k].tags, NotifiedTag)
====
